---- MODULE Spec2Model ----
(***************************************************************************)
(* Verification model of the hoymiles bridge: the production cache of the  *)
(* MQTT message builder (hoymiles_smiles/ha.py), the persistence of that   *)
(* cache (hoymiles_mqtt/persistence.py), the coordinator's daily reset     *)
(* (hoymiles_mqtt/runners_new.py) and the circuit breaker                  *)
(* (hoymiles_smiles/circuit_breaker.py).                                   *)
(*                                                                         *)
(* Three specifications share the variables:                               *)
(*   SpecCache   - HassMqtt.get_states / clear_production_today            *)
(*   SpecReset   - MultiDtuCoordinator._check_daily_reset on each tick     *)
(*   SpecBreaker - CircuitBreaker.call / reset under a moving clock        *)
(***************************************************************************)
EXTENDS Integers, Sequences, FiniteSets, TLC

\* ------------------------------------------------------------------ bounds
\* Largest today_production reading (Wh) a port reports in the model.
MaxToday == 2
\* Largest total_production reading (Wh) a port reports in the model.
MaxTotal == 1

\* Last day (days since start) the clock of the coordinator reaches.
MaxDay == 29
\* Largest failure_threshold and timeout (seconds) a breaker is built with.
MaxThreshold == 3
MaxTimeout == 2
\* Last second the breaker's clock reaches.
MaxClock == 4
\* Most calls that reach the wrapped function of one breaker.
MaxCalls == 4
\* Largest comm_retries the retry strategy is built with.
MaxRetries == 2
\* Most execute() calls made on the DTU query jobs, all jobs together.
MaxExecutes == 3
\* max_queue_size the MQTT client is built with, and the number of messages
\* the producer hands to publish().
MaxQueue == 2
MaxMessages == 3
\* Largest unfinished_tasks at which a connect still fails: every failed
\* connect that puts its message back adds 1 to it for good.
MaxUnfinished == 4
\* Last second the clock of the health registry reaches.
MaxHealthTime == 720
\* Most inverter port records in one snapshot of the message streams.
MaxInverters == 3
\* Most save_production_cache calls made on the store, all keys together.
MaxSaves == 3
\* Most ticks the coordinator loop begins.
MaxTicks == 2
\* The query period, in seconds of the wait between two ticks.
MaxPeriod == 2
\* Most execute() calls of the polled job.
MaxPolls == 4
\* The polled job begins no execute() once it made this many publish calls.
MaxPublishCalls == 5
\* Most store operations the threads begin on the shared connection.
MaxOps == 4
\* Most builder operations made on a store whose operations can fail.
MaxFaultyOps == 3
\* Most get_states calls and restarts of the builders that share one store.
MaxBuilderOps == 4
\* Most /health requests the handler thread serves.
MaxRequests == 2

\* ha.py:35
ZERO == 0
\* timing.reset_hour, config.py:105 (default)
reset_hour == 23
\* MultiDtuCoordinator.last_reset_date = None, runners_new.py:251
NoDate == 0
\* CircuitBreaker.last_failure_time = None, circuit_breaker.py:44
NoTime == -1
\* CircuitBreaker.__init__ defaults, circuit_breaker.py:31
DefaultThreshold == 5
DefaultTimeout == 60
\* comm_retries, config.py:208 (default)
DefaultRetries == 3
\* HealthMetrics.is_healthy(dtu_offline_threshold=300), health.py:153
DefaultOfflineThreshold == 300
\* No /health response has been sent since the last change.
NoResponse == 0

\* The (serial_number, port_number) cache keys of the modelled plant. Port
\* A/1 reports every reading of Readings; port B/1 reports one of the two
\* readings of CoarseReadings (idle at zero, running at the maximum), which
\* keeps the state space small while snapshots still carry two readings.
FinePort == <<"A", 1>>
CoarsePort == <<"B", 1>>
Keys == {FinePort, CoarsePort}

\* operating_status values a microinverter reports: 0 is idle.
OperatingStatus == {0, 1}

\* One microinverter port reading of a polled snapshot.
Readings ==
    [operating_status : OperatingStatus,
     today_production : 0..MaxToday,
     total_production : 0..MaxTotal]

CoarseReadings ==
    {[operating_status |-> 0, today_production |-> 0, total_production |-> 0],
     [operating_status |-> 1, today_production |-> MaxToday,
      total_production |-> MaxTotal]}

\* The aggregates (today, total) the DTU itself reports in a snapshot.
DtuReported == {<<0, 0>>, <<MaxToday, MaxTotal>>}

\* A row of the production_cache table.
Rows == [today_production : 0..MaxToday, total_production : 0..MaxTotal]

\* The rows port B/1 can have in the table: what its readings leave there.
CoarseRows ==
    {[today_production |-> t, total_production |-> MaxTotal] : t \in {0, MaxToday}}
    \cup {[today_production |-> 0, total_production |-> 0]}

\* All maps from a subset of S to T (Python dicts / table contents).
PartialMaps(S, T) == UNION {[D -> T] : D \in SUBSET S}

Empty == [k \in {} |-> ZERO]

\* dict.get(key, default)
Get(map, key, default) == IF key \in DOMAIN map THEN map[key] ELSE default

RECURSIVE SumValues(_)
\* sum(dict.values())
SumValues(map) ==
    IF DOMAIN map = {} THEN 0
    ELSE LET k == CHOOSE x \in DOMAIN map : TRUE
         IN  map[k] + SumValues([j \in DOMAIN map \ {k} |-> map[j]])

VARIABLES
    prod_today_cache,   \* HassMqtt._prod_today_cache
    prod_total_cache,   \* HassMqtt._prod_total_cache
    enabled,            \* PersistenceManager.enabled
    production_cache,   \* rows of the production_cache table
    polled,             \* the readings last given to get_states, as polled
    plant_data,         \* the snapshot last given to get_states, as mutated
    port_state,         \* last port state payload emitted per (serial, port)
    dtu_state,          \* last DTU state payload emitted
    last_op             \* the builder operation that ran last

cacheVars ==
    <<prod_today_cache, prod_total_cache, enabled, production_cache,
      polled, plant_data, port_state, dtu_state, last_op>>

VARIABLES
    now_day,            \* local calendar day of the coordinator's clock
    now_hour,           \* local hour of the coordinator's clock
    last_reset_date,    \* MultiDtuCoordinator.last_reset_date
    clear_invoked,      \* the last tick called clear_production_today
    last_clear_day      \* calendar day of the last clear (history)

resetVars ==
    <<now_day, now_hour, last_reset_date, clear_invoked, last_clear_day>>

VARIABLES
    state,              \* CircuitBreaker.state
    failure_count,      \* CircuitBreaker.failure_count
    last_failure_time,  \* CircuitBreaker.last_failure_time
    success_count,      \* CircuitBreaker.success_count
    failure_threshold,  \* CircuitBreaker.failure_threshold
    timeout,            \* CircuitBreaker.timeout
    clock,              \* time.time(), in seconds
    pc,                 \* "idle", or "calling" while call() runs func
    call_result,        \* how the last completed call() ended
    invoked,            \* the last call() invoked the wrapped function
    failed_calls,       \* calls whose function raised, since fresh (history)
    ok_calls            \* calls whose function returned, since fresh (history)

breakerVars ==
    <<state, failure_count, last_failure_time, success_count,
      failure_threshold, timeout, clock, pc, call_result, invoked,
      failed_calls, ok_calls>>

VARIABLES
    exponential_backoff, \* config.exponential_backoff
    max_attempts,       \* RetryStrategy.max_attempts
    attempt,            \* attempts of func made by the call in progress
    recovery_result,    \* what the last execute_with_recovery returned
    count_at_call       \* failure_count when the call began (history)

retryVars ==
    <<exponential_backoff, max_attempts, attempt, recovery_result,
      count_at_call>>

VARIABLES
    job_lock,           \* DtuQueryJob._lock is held, per DTU
    job_pc,             \* position of each thread inside DtuQueryJob.execute
    job_result,         \* what the last execute() of each thread returned
    breakers,           \* ErrorRecoveryManager.circuit_breakers, per DTU
    job_data,           \* the plant_data an execute() holds, per DTU
    job_cache,          \* the total cached by the DTU's builder (one port)
    mqtt_configured,    \* DtuQueryJob.mqtt_configured, per DTU
    published,          \* the mqtt_client.publish calls made, in order
    executes            \* execute() calls made so far, per DTU

jobVars ==
    <<job_lock, job_pc, job_result, breakers, job_data, job_cache,
      mqtt_configured, published, executes>>

VARIABLES
    message_queue,      \* EnhancedMqttClient.message_queue, head first
    unfinished_tasks,   \* message_queue.unfinished_tasks (put +1, task_done -1)
    connected,          \* EnhancedMqttClient.connected
    running,            \* EnhancedMqttClient.running
    messages_sent,      \* EnhancedMqttClient.messages_sent
    messages_failed,    \* EnhancedMqttClient.messages_failed
    loop_pc,            \* position of _publisher_loop: get, connect, publish
    dequeued,           \* the message _publisher_loop holds
    broker_log,         \* the messages client.publish accepted, in order
    next_message,       \* number of the next message handed to publish()
    publish_result,     \* what the last publish() returned
    flush_pc            \* shutdown: idle, joining (in flush), returned, stopped

queueVars ==
    <<message_queue, unfinished_tasks, connected, running, messages_sent,
      messages_failed, loop_pc, dequeued, broker_log, next_message,
      publish_result, flush_pc>>

VARIABLES
    last_successful_query, \* HealthMetrics.last_successful_query
    health_now,         \* time.time() of the health registry, in seconds
    dtu_offline_threshold, \* config.dtu_offline_threshold
    health_status       \* status code of the /health response just sent

healthVars ==
    <<last_successful_query, health_now, dtu_offline_threshold, health_status>>

VARIABLES
    exclude_inverters,  \* HassMqtt._exclude_inverters
    snapshot,           \* plant_data.inverters: (serial, port) records
    config_messages,    \* what get_configs yielded for the snapshot
    state_messages      \* what get_states yielded for the snapshot

streamVars ==
    <<exclude_inverters, snapshot, config_messages, state_messages>>

VARIABLES
    connection,         \* PersistenceManager.connection is not None
    last_saved,         \* (today, total) of the last save call per key (history)
    save_count,         \* save_production_cache calls per key (history)
    dropped,            \* a save was called on a disabled or closed store (history)
    fresh,              \* the store was opened after the last save (history)
    loaded,             \* the dict load_production_cache returned last
    store_op            \* the store operation that ran last

storeVars ==
    <<connection, last_saved, save_count, dropped, fresh, loaded, store_op>>

VARIABLES
    stop_event,         \* the threading.Event set by the signal handler
    coord_pc,           \* position of run_periodic_coordinator / execute_all
    ticks,              \* execute_all calls begun by the loop (history)
    remaining,          \* seconds left of stop_event.wait(timeout=period)
    to_clear,           \* jobs whose builder _check_daily_reset still clears
    to_start,           \* jobs whose thread execute_all still starts
    reset_fired,        \* _check_daily_reset of this tick found the reset due
    worker_pc,          \* position of each worker thread in job.execute
    worker_result,      \* what the execute() of each worker thread returned
    today_cache,        \* the today value cached by each job's builder
    observed            \* the cached today value an update read (history)

tickVars ==
    <<stop_event, coord_pc, ticks, remaining, to_clear, to_start,
      reset_fired, worker_pc, worker_result, today_cache, observed>>

VARIABLES
    dry_run,            \* config.dry_run
    poll_pc,            \* position of the polled job inside execute()
    poll_left,          \* messages the running loop of _publish_to_mqtt has left
    poll_result,        \* what the last execute() of the polled job returned
    polls,              \* execute() calls of the polled job so far
    publish_calls,      \* its mqtt_client.publish calls: kind, retain, result
    query_count,        \* HealthMetrics.query_count of the DTU
    error_count,        \* HealthMetrics.error_count of the DTU
    dtu_status,         \* HealthMetrics.dtu_status of the DTU
    dtu_available,      \* gauge hoymiles_dtu_available of the DTU
    circuit_breaker_state, \* gauge hoymiles_circuit_breaker_state of the DTU
    mqtt_published_count, \* HealthMetrics.mqtt_published_count
    mqtt_error_count    \* HealthMetrics.mqtt_error_count

pollVars ==
    <<dry_run, poll_pc, poll_left, poll_result, polls, publish_calls,
      query_count, error_count, dtu_status, dtu_available,
      circuit_breaker_state, mqtt_published_count, mqtt_error_count>>

VARIABLES
    op_pc,              \* position of each thread inside a store method
    op_arg,             \* today_production argument of a thread's save
    uncommitted,        \* rows written on the connection and not committed
    ops_begun,          \* store methods entered so far
    statistics          \* production_cache_entries of the last get_statistics

shareVars == <<op_pc, op_arg, uncommitted, ops_begun, statistics>>

VARIABLES
    store_usable,       \* PersistenceManager.enabled and a connection is held
    disk_rows,          \* rows of production_cache in the database file
    mem_today,          \* HassMqtt._prod_today_cache of the builder
    mem_total,          \* HassMqtt._prod_total_cache of the builder
    tick_reading,       \* the snapshot the last get_states was given
    store_outcome,      \* how the sqlite3 calls of the last operation ended
    emitted,            \* the port state get_states yielded last
    escaped,            \* an exception left a store method (history)
    faulty_op,          \* the builder operation that ran last
    faulty_ops          \* builder operations made so far

faultVars ==
    <<store_usable, disk_rows, mem_today, mem_total, tick_reading,
      store_outcome, emitted, escaped, faulty_op, faulty_ops>>

VARIABLES
    shared_table,       \* rows of production_cache, the one store of all jobs
    builder_today,      \* HassMqtt._prod_today_cache of each DTU's builder
    builder_total,      \* HassMqtt._prod_total_cache of each DTU's builder
    builder_ops         \* get_states calls and restarts made so far

builderVars == <<shared_table, builder_today, builder_total, builder_ops>>

VARIABLES
    status_pc,          \* position of the handler thread in get_health_status
    copied_queries,     \* its local copy of last_successful_query
    response_healthy,   \* 'healthy' of the last status returned
    response_dtus,      \* last_successful_query per DTU of its 'dtus' section
    requests            \* get_health_status calls begun so far

snapVars ==
    <<status_pc, copied_queries, response_healthy, response_dtus, requests>>

VARIABLES
    accepted_count,     \* publish() calls that returned True (history)
    rejected_count      \* publish() calls that returned False (history)

tallyVars == <<accepted_count, rejected_count>>

\* The variables of the components added to the three first ones.
extVars ==
    <<retryVars, jobVars, queueVars, healthVars, streamVars, storeVars,
      tickVars, pollVars, shareVars, faultVars, builderVars, snapVars,
      tallyVars>>

vars == <<cacheVars, resetVars, breakerVars, extVars>>

\* Every added component outside the set S keeps its variables.
Frame(S) ==
    /\ IF "retry" \in S THEN TRUE ELSE UNCHANGED retryVars
    /\ IF "job" \in S THEN TRUE ELSE UNCHANGED jobVars
    /\ IF "queue" \in S THEN TRUE ELSE UNCHANGED queueVars
    /\ IF "health" \in S THEN TRUE ELSE UNCHANGED healthVars
    /\ IF "stream" \in S THEN TRUE ELSE UNCHANGED streamVars
    /\ IF "store" \in S THEN TRUE ELSE UNCHANGED storeVars
    /\ IF "tick" \in S THEN TRUE ELSE UNCHANGED tickVars
    /\ IF "poll" \in S THEN TRUE ELSE UNCHANGED pollVars
    /\ IF "share" \in S THEN TRUE ELSE UNCHANGED shareVars
    /\ IF "fault" \in S THEN TRUE ELSE UNCHANGED faultVars
    /\ IF "builder" \in S THEN TRUE ELSE UNCHANGED builderVars
    /\ IF "snap" \in S THEN TRUE ELSE UNCHANGED snapVars
    /\ IF "tally" \in S THEN TRUE ELSE UNCHANGED tallyVars

\* ------------------------------------------------------- persistence.py
\* PersistenceManager.load_production_cache
load_production_cache == IF enabled THEN production_cache ELSE Empty

\* Mutant: the UPDATE zeroes total_production as well.
ClearedRowsAll(rows) ==
    [k \in DOMAIN rows |-> [today_production |-> 0, total_production |-> 0]]

\* UPDATE production_cache SET today_production = 0
ClearedRows(rows) ==
    [k \in DOMAIN rows |->
        [today_production |-> 0, total_production |-> rows[k].total_production]]

\* PersistenceManager.clear_today_production
clear_today_production(rows) == IF enabled THEN ClearedRows(rows) ELSE rows

\* INSERT OR REPLACE of one row per saved key
ReplacedRows(rows, today, total) ==
    [k \in DOMAIN rows \cup DOMAIN today |->
        IF k \in DOMAIN today
        THEN [today_production |-> today[k],
              total_production |-> Get(total, k, 0)]
        ELSE rows[k]]

\* HassMqtt._save_cache_to_persistence
SaveCacheToPersistence(rows, today, total) ==
    IF enabled THEN ReplacedRows(rows, today, total) ELSE rows

\* Mutant: INSERT OR IGNORE, a row that exists is kept.
SavedRowIgnored(rows, k, today, total) ==
    [j \in DOMAIN rows \cup {k} |->
        IF j \in DOMAIN rows THEN rows[j]
        ELSE [today_production |-> today, total_production |-> total]]

\* INSERT OR REPLACE INTO production_cache of the row of one key, committed
SavedRow(rows, k, today, total) ==
    [j \in DOMAIN rows \cup {k} |->
        IF j = k
        THEN [today_production |-> today, total_production |-> total]
        ELSE rows[j]]

\* SELECT * FROM production_cache, as the dict key -> (today, total)
SelectedRows(rows) ==
    [k \in DOMAIN rows |->
        <<rows[k].today_production, rows[k].total_production>>]

\* PersistenceManager.save_production_cache
save_production_cache(k, today, total) ==
    /\ production_cache' =
          IF enabled /\ connection
          THEN SavedRow(production_cache, k, today, total)
          ELSE production_cache
    /\ last_saved' =
          [j \in DOMAIN last_saved \cup {k} |->
              IF j = k THEN <<today, total>> ELSE last_saved[j]]
    /\ save_count' =
          [j \in DOMAIN save_count \cup {k} |->
              IF j = k THEN Get(save_count, k, 0) + 1 ELSE save_count[j]]
    /\ dropped' = (dropped \/ ~(enabled /\ connection))
    /\ fresh' = FALSE
    /\ store_op' = "save"
    /\ UNCHANGED <<enabled, connection, loaded>>

\* PersistenceManager.load_production_cache on the store
load_from_store ==
    /\ loaded' =
          IF enabled /\ connection
          THEN SelectedRows(production_cache) ELSE Empty
    /\ store_op' = "load"
    /\ UNCHANGED <<enabled, production_cache, connection, last_saved,
                   save_count, dropped, fresh>>

\* PersistenceManager.close
close ==
    /\ connection
    /\ connection' = FALSE
    /\ store_op' = "close"
    /\ UNCHANGED <<enabled, production_cache, last_saved, save_count,
                   dropped, fresh, loaded>>

\* PersistenceManager.__init__ on the same file: on is the enabled argument,
\* outcome is how _initialize_database ends ("ok", or a sqlite3.Error
\* raised by connect, or one raised after connect).
open_store(on, outcome) ==
    /\ ~connection
    /\ enabled' = (on /\ outcome = "ok")
    /\ connection' = (on /\ outcome # "connect_error")
    /\ fresh' = TRUE
    /\ store_op' = "open"
    /\ UNCHANGED <<production_cache, last_saved, save_count, dropped,
                   loaded>>

\* PersistenceManager.__init__ on a new file
InitStore ==
    /\ connection = enabled
    /\ last_saved = Empty
    /\ save_count = Empty
    /\ dropped = FALSE
    /\ fresh = TRUE
    /\ loaded = Empty
    /\ store_op = "open"

\* The threads that call the one PersistenceManager: the worker thread of
\* each DTU job (its builder saves the cache entries of its port) and the
\* thread of the health server (GET /stats).
SaveThreads == {"d1", "d2"}
StatsThread == "http"
StoreThreads == SaveThreads \cup {StatsThread}

\* The cache key a job's builder saves.
KeyOf(t) == IF t = "d1" THEN FinePort ELSE CoarsePort

\* The rows a cursor of the connection sees: the table and, over it, the
\* rows of the connection's open transaction
Visible(rows, pending) ==
    [k \in DOMAIN rows \cup DOMAIN pending |->
        IF k \in DOMAIN pending THEN pending[k] ELSE rows[k]]

\* save_production_cache is entered by thread t: enabled and connected, it
\* takes a cursor (no lock is taken)
save_enters(t, today) ==
    /\ enabled /\ connection
    /\ op_pc[t] = "idle"
    /\ ops_begun < MaxOps
    /\ ops_begun' = ops_begun + 1
    /\ op_pc' = [op_pc EXCEPT ![t] = "execute"]
    /\ op_arg' = [op_arg EXCEPT ![t] = today]
    /\ UNCHANGED <<production_cache, uncommitted, statistics>>

\* save_production_cache: cursor.execute(INSERT OR REPLACE ...)
save_executes(t) ==
    /\ op_pc[t] = "execute"
    /\ uncommitted' = SavedRow(uncommitted, KeyOf(t), op_arg[t], MaxTotal)
    /\ op_pc' = [op_pc EXCEPT ![t] = "commit"]
    /\ UNCHANGED <<production_cache, op_arg, ops_begun, statistics>>

\* save_production_cache: self.connection.commit(), which commits every
\* row written on the connection; the method returns
save_commits(t) ==
    /\ op_pc[t] = "commit"
    /\ production_cache' = Visible(production_cache, uncommitted)
    /\ uncommitted' = Empty
    /\ op_pc' = [op_pc EXCEPT ![t] = "idle"]
    /\ UNCHANGED <<op_arg, ops_begun, statistics>>

\* get_statistics is entered by the health server's thread
stats_enters ==
    /\ enabled /\ connection
    /\ op_pc[StatsThread] = "idle"
    /\ ops_begun < MaxOps
    /\ ops_begun' = ops_begun + 1
    /\ op_pc' = [op_pc EXCEPT ![StatsThread] = "select"]
    /\ UNCHANGED <<production_cache, op_arg, uncommitted, statistics>>

\* get_statistics: SELECT COUNT(*) FROM production_cache, and the method
\* returns
stats_selects ==
    /\ op_pc[StatsThread] = "select"
    /\ statistics' =
          Cardinality(DOMAIN Visible(production_cache, uncommitted))
    /\ op_pc' = [op_pc EXCEPT ![StatsThread] = "idle"]
    /\ UNCHANGED <<production_cache, op_arg, uncommitted, ops_begun>>

\* No store method is running
InitShared ==
    /\ op_pc = [t \in StoreThreads |-> "idle"]
    /\ op_arg = [t \in SaveThreads |-> 0]
    /\ uncommitted = Empty
    /\ ops_begun = 0
    /\ statistics = 0

\* ---------------------------------------------------------------- ha.py
\* Mutant: a running port's reading replaces the cache without comparison.
CacheAfterUnchecked(status, value, cached) ==
    IF status > 0 THEN value ELSE cached

\* Mutant: the operating_status test is dropped.
CacheAfterAnyStatus(status, value, cached) ==
    IF value >= cached THEN value ELSE cached

\* _update_cache: the cache value of one counter after one reading
CacheAfter(status, value, cached) ==
    IF status > 0 /\ value >= cached THEN value ELSE cached

\* _update_cache: the reading's counter after the call (the reading is
\* overwritten with the cached value only on a regression of a running port)
ReadingAfter(status, value, cached) ==
    IF status > 0 /\ value < cached THEN cached ELSE value

\* _update_cache over the readings of a snapshot: one cache
UpdateCache(cache, inverters, field) ==
    [k \in DOMAIN cache \cup DOMAIN inverters |->
        IF k \in DOMAIN inverters
        THEN CacheAfter(inverters[k].operating_status, inverters[k][field],
                        Get(cache, k, ZERO))
        ELSE cache[k]]

\* _update_cache over the readings of a snapshot: the mutated readings
UpdateReadings(today, total, inverters) ==
    [k \in DOMAIN inverters |->
        [operating_status |-> inverters[k].operating_status,
         today_production |->
            ReadingAfter(inverters[k].operating_status,
                         inverters[k].today_production, Get(today, k, ZERO)),
         total_production |->
            ReadingAfter(inverters[k].operating_status,
                         inverters[k].total_production, Get(total, k, ZERO))]]

\* Mutant: the aggregate the DTU reported is kept.
AggregateReported(cache, reported) == reported

\* _process_plant_data: the DTU-level aggregate that replaces the reported
Aggregate(cache, reported) ==
    IF DOMAIN cache # {} THEN SumValues(cache) ELSE ZERO

\* _ignore_when_zero
IgnoreWhenZero(value) == value = ZERO

\* _get_state(plant_data.dtu, DtuEntities, plant_data): today_production and
\* total_production carry ignore_rule=_ignore_when_zero
DtuPayload(data) ==
    [e \in {n \in {"today_production", "total_production"} :
                ~IgnoreWhenZero(data[n])} |-> data[e]]

\* _get_state(serial, PortEntities, reading, port): today_production and
\* total_production carry no ignore rule and no converter
PortPayload(reading) ==
    [today_production |-> reading.today_production,
     total_production |-> reading.total_production]

\* HassMqtt.get_states on a polled snapshot: _process_plant_data, then
\* _save_cache_to_persistence, then the DTU and the port state messages
get_states(inverters, reported) ==
    /\ prod_today_cache' =
          UpdateCache(prod_today_cache, inverters, "today_production")
    /\ prod_total_cache' =
          UpdateCache(prod_total_cache, inverters, "total_production")
    /\ polled' = inverters
    /\ plant_data' =
          [today_production |-> Aggregate(prod_today_cache', reported[1]),
           total_production |-> Aggregate(prod_total_cache', reported[2]),
           inverters |-> UpdateReadings(prod_today_cache, prod_total_cache,
                                        inverters)]
    /\ production_cache' =
          SaveCacheToPersistence(production_cache, prod_today_cache',
                                 prod_total_cache')
    /\ dtu_state' = DtuPayload(plant_data')
    /\ port_state' =
          [k \in DOMAIN port_state \cup DOMAIN inverters |->
              IF k \in DOMAIN inverters
              THEN PortPayload(plant_data'.inverters[k])
              ELSE port_state[k]]
    /\ last_op' = "get_states"
    /\ UNCHANGED enabled

\* HassMqtt.clear_production_today
clear_production_today ==
    /\ prod_today_cache' = Empty
    /\ production_cache' = clear_today_production(production_cache)
    /\ last_op' = "clear"
    /\ UNCHANGED <<prod_total_cache, enabled, polled, plant_data, port_state,
                   dtu_state>>

\* HassMqtt.__init__ with a persistence manager: the cache is loaded
InitBuilder(tables) ==
    /\ enabled \in BOOLEAN
    /\ production_cache \in (IF enabled THEN tables ELSE {Empty})
    /\ prod_today_cache =
          [k \in DOMAIN load_production_cache |->
              load_production_cache[k].today_production]
    /\ prod_total_cache =
          [k \in DOMAIN load_production_cache |->
              load_production_cache[k].total_production]
    /\ polled = Empty
    /\ plant_data = [today_production |-> 0, total_production |-> 0,
                     inverters |-> Empty]
    /\ port_state = Empty
    /\ dtu_state = Empty
    /\ last_op = "init"

\* --------------------------------- ha.py on a store whose calls can fail
\* How the sqlite3 calls of one store method end: they succeed, or one of
\* them raises a subclass of sqlite3.Error.
StoreOutcomes == {"ok", "OperationalError", "IntegrityError"}

\* Mutant: the store methods catch sqlite3.OperationalError only.
HandlesOperationalOnly(outcome) == outcome = "OperationalError"

\* except sqlite3.Error, in every store method
Handles(outcome) == outcome \in {"OperationalError", "IntegrityError"}

\* A store method lets the exception of its sqlite3 calls out. A disabled
\* store, or one without a connection, returns before any sqlite3 call.
Escapes(usable, outcome) == usable /\ outcome # "ok" /\ ~Handles(outcome)

\* No port state was yielded.
NotEmitted == <<-1, -1>>

\* HassMqtt.get_states on the snapshot of one port, against a store whose
\* INSERT or commit ends with outcome: the cache is updated, the cache entry
\* is saved, then the port state is yielded
faulty_get_states(inverters, outcome) ==
    /\ faulty_ops < MaxFaultyOps
    /\ faulty_ops' = faulty_ops + 1
    /\ faulty_op' = "get_states"
    /\ tick_reading' = inverters
    /\ store_outcome' = outcome
    /\ mem_today' = UpdateCache(mem_today, inverters, "today_production")
    /\ mem_total' = UpdateCache(mem_total, inverters, "total_production")
    /\ disk_rows' =
          IF store_usable /\ outcome = "ok"
          THEN ReplacedRows(disk_rows, mem_today', mem_total')
          ELSE disk_rows
    /\ escaped' = (escaped \/ Escapes(store_usable, outcome))
    /\ emitted' =
          IF Escapes(store_usable, outcome) THEN NotEmitted
          ELSE LET r == UpdateReadings(mem_today, mem_total, inverters)[FinePort]
               IN  <<r.today_production, r.total_production>>
    /\ UNCHANGED store_usable

\* HassMqtt.clear_production_today against a store whose UPDATE or commit
\* ends with outcome
faulty_clear(outcome) ==
    /\ faulty_ops < MaxFaultyOps
    /\ faulty_ops' = faulty_ops + 1
    /\ faulty_op' = "clear"
    /\ store_outcome' = outcome
    /\ mem_today' = Empty
    /\ disk_rows' =
          IF store_usable /\ outcome = "ok"
          THEN ClearedRows(disk_rows) ELSE disk_rows
    /\ escaped' = (escaped \/ Escapes(store_usable, outcome))
    /\ emitted' = NotEmitted
    /\ UNCHANGED <<store_usable, mem_total, tick_reading>>

\* A new process on the same file: PersistenceManager.__init__ with the
\* enabled argument on (opened: _initialize_database raised no
\* sqlite3.Error), then HassMqtt.__init__, whose load_production_cache ends
\* with outcome
faulty_restart(on, opened, outcome) ==
    /\ faulty_ops < MaxFaultyOps
    /\ faulty_ops' = faulty_ops + 1
    /\ faulty_op' = "load"
    /\ store_outcome' = outcome
    /\ store_usable' = (on /\ opened)
    /\ mem_today' =
          IF store_usable' /\ outcome = "ok"
          THEN [k \in DOMAIN disk_rows |-> disk_rows[k].today_production]
          ELSE Empty
    /\ mem_total' =
          IF store_usable' /\ outcome = "ok"
          THEN [k \in DOMAIN disk_rows |-> disk_rows[k].total_production]
          ELSE Empty
    /\ escaped' = (escaped \/ Escapes(store_usable', outcome))
    /\ emitted' = NotEmitted
    /\ UNCHANGED <<disk_rows, tick_reading>>

\* PersistenceManager.__init__ on a new file, then HassMqtt.__init__
InitFaulty(usables) ==
    /\ store_usable \in usables
    /\ disk_rows = Empty
    /\ mem_today = Empty
    /\ mem_total = Empty
    /\ tick_reading = Empty
    /\ store_outcome = "ok"
    /\ emitted = NotEmitted
    /\ escaped = FALSE
    /\ faulty_op = "init"
    /\ faulty_ops = 0

\* ------------------------- ha.py: one builder per DTU on the same store
\* HassMqtt.get_states of the builder of DTU d on a snapshot of the DTU's
\* port: the builder's caches are updated and every key of its today cache
\* is saved, then the states are yielded
builder_get_states(d, reading) ==
    /\ builder_ops < MaxBuilderOps
    /\ builder_ops' = builder_ops + 1
    /\ LET inverters == [k \in {KeyOf(d)} |-> reading]
       IN  /\ builder_today' =
                 [builder_today EXCEPT
                     ![d] = UpdateCache(@, inverters, "today_production")]
           /\ builder_total' =
                 [builder_total EXCEPT
                     ![d] = UpdateCache(@, inverters, "total_production")]
    /\ shared_table' =
          ReplacedRows(shared_table, builder_today'[d], builder_total'[d])

\* A new process on the same file: _initialize_dtu_jobs builds one HassMqtt
\* per DTU with the one persistence manager, and each of them loads every
\* row of the table into its caches
builders_restart ==
    /\ builder_ops < MaxBuilderOps
    /\ builder_ops' = builder_ops + 1
    /\ builder_today' =
          [d \in SaveThreads |->
              [k \in DOMAIN shared_table |-> shared_table[k].today_production]]
    /\ builder_total' =
          [d \in SaveThreads |->
              [k \in DOMAIN shared_table |-> shared_table[k].total_production]]
    /\ UNCHANGED shared_table

\* The first start, on a new file
InitBuilders ==
    /\ shared_table = Empty
    /\ builder_today = [d \in SaveThreads |-> Empty]
    /\ builder_total = [d \in SaveThreads |-> Empty]
    /\ builder_ops = 0

\* ------------------------------------------------------- runners_new.py
\* Days of the months the clock runs through: it starts on 1 February of a
\* common year.
MonthDays == <<28, 31>>

\* datetime.now(tz).day for the calendar day d (days since start)
DayOfMonth(d) == IF d < MonthDays[1] THEN d + 1 ELSE d - MonthDays[1] + 1

\* the condition of _check_daily_reset
ResetDue(hour, day) ==
    hour = reset_hour /\ last_reset_date # DayOfMonth(day)

\* MultiDtuCoordinator._check_daily_reset, run by execute_all on the tick
\* that comes gap hours after the previous one (one builder)
check_daily_reset(gap) ==
    LET t == now_day * 24 + now_hour + gap
    IN  /\ t \div 24 <= MaxDay
        /\ now_day' = t \div 24
        /\ now_hour' = t % 24
        /\ IF ResetDue(now_hour', now_day')
           THEN /\ clear_production_today
                /\ last_reset_date' = DayOfMonth(now_day')
                /\ clear_invoked' = TRUE
                /\ last_clear_day' = now_day'
           ELSE /\ clear_invoked' = FALSE
                /\ UNCHANGED <<cacheVars, last_reset_date, last_clear_day>>

\* The process is restarted at the same local time on the same store:
\* HassMqtt.__init__ loads the caches from the table, and
\* MultiDtuCoordinator.__init__ sets last_reset_date = None
coordinator_restart ==
    /\ last_reset_date' = NoDate
    /\ clear_invoked' = FALSE
    /\ prod_today_cache' =
          [k \in DOMAIN load_production_cache |->
              load_production_cache[k].today_production]
    /\ prod_total_cache' =
          [k \in DOMAIN load_production_cache |->
              load_production_cache[k].total_production]
    /\ polled' = Empty
    /\ plant_data' = [today_production |-> 0, total_production |-> 0,
                      inverters |-> Empty]
    /\ port_state' = Empty
    /\ dtu_state' = Empty
    /\ last_op' = "init"
    /\ UNCHANGED <<enabled, production_cache, now_day, now_hour,
                   last_clear_day>>

\* MultiDtuCoordinator.__init__
InitCoordinator(hours) ==
    /\ now_day = 0
    /\ now_hour \in hours
    /\ last_reset_date = NoDate
    /\ clear_invoked = FALSE
    /\ last_clear_day = -1

\* ------------------------------------------------------ circuit_breaker.py
\* Mutant: the timeout must be exceeded, not reached.
ShouldAttemptResetStrict ==
    IF last_failure_time = NoTime THEN TRUE
    ELSE clock - last_failure_time > timeout

\* CircuitBreaker._should_attempt_reset
ShouldAttemptReset ==
    IF last_failure_time = NoTime THEN TRUE
    ELSE clock - last_failure_time >= timeout

\* Mutant: the threshold must be exceeded, not reached.
ThresholdExceeded(count) == count > failure_threshold

\* CircuitBreaker._on_failure: the threshold test
ThresholdReached(count) == count >= failure_threshold

\* Mutant: a failed probe keeps the timestamp of the failure that opened.
OnFailureTimeKept(s, last, now) == IF s = "half_open" THEN last ELSE now

\* CircuitBreaker._on_failure: last_failure_time = time.time(), in every state
OnFailureTime(s, last, now) == now

\* Mutant: the count is decremented without the floor.
DecrementedBelowZero(count) == count - 1

\* CircuitBreaker._on_success, not half-open: max(0, failure_count - 1)
Decremented(count) == IF count - 1 > 0 THEN count - 1 ELSE 0

\* CircuitBreaker.call up to the invocation of func: an open breaker
\* rejects the call, or turns half-open once the timeout has elapsed
call_begin ==
    /\ pc = "idle"
    /\ failed_calls + ok_calls < MaxCalls
    /\ IF state = "open" /\ ~ShouldAttemptReset
       THEN /\ call_result' = "rejected"
            /\ invoked' = FALSE
            /\ UNCHANGED <<state, pc>>
       ELSE /\ state' = IF state = "open" THEN "half_open" ELSE state
            /\ invoked' = TRUE
            /\ pc' = "calling"
            /\ UNCHANGED call_result
    /\ UNCHANGED <<failure_count, last_failure_time, success_count,
                   failure_threshold, timeout, clock, failed_calls, ok_calls>>

\* CircuitBreaker.call when func returns: _on_success
call_returns ==
    /\ pc = "calling"
    /\ IF state = "half_open"
       THEN /\ state' = "closed"
            /\ failure_count' = 0
            /\ success_count' = 0
       ELSE /\ failure_count' = Decremented(failure_count)
            /\ success_count' = success_count + 1
            /\ UNCHANGED state
    /\ pc' = "idle"
    /\ call_result' = "returned"
    /\ ok_calls' = ok_calls + 1
    /\ UNCHANGED <<last_failure_time, failure_threshold, timeout, clock,
                   invoked, failed_calls>>

\* CircuitBreaker.call when func raises: _on_failure, then re-raise
call_raises ==
    /\ pc = "calling"
    /\ failure_count' = failure_count + 1
    /\ last_failure_time' = OnFailureTime(state, last_failure_time, clock)
    /\ state' = IF state = "half_open" THEN "open"
                ELSE IF ThresholdReached(failure_count') THEN "open"
                ELSE state
    /\ pc' = "idle"
    /\ call_result' = "raised"
    /\ failed_calls' = failed_calls + 1
    /\ UNCHANGED <<success_count, failure_threshold, timeout, clock, invoked,
                   ok_calls>>

\* Mutant: a manual reset zeroes the counts and keeps the state.
StateAfterResetKept(s) == s

\* CircuitBreaker.reset: self.state = CircuitBreakerState.CLOSED
StateAfterReset(s) == "closed"

\* CircuitBreaker.reset, called between two calls or, from another thread,
\* while a call is in the wrapped function
reset ==
    /\ state' = StateAfterReset(state)
    /\ failure_count' = 0
    /\ last_failure_time' = NoTime
    /\ success_count' = 0
    /\ failed_calls' = 0
    /\ ok_calls' = 0
    /\ UNCHANGED <<failure_threshold, timeout, clock, pc, call_result, invoked>>

\* one second passes on time.time()
clock_ticks ==
    /\ clock < MaxClock
    /\ clock' = clock + 1
    /\ UNCHANGED <<state, failure_count, last_failure_time, success_count,
                   failure_threshold, timeout, pc, call_result, invoked,
                   failed_calls, ok_calls>>

\* CircuitBreaker.__init__
InitBreaker(thresholds, timeouts) ==
    /\ failure_threshold \in thresholds
    /\ timeout \in timeouts
    /\ state = "closed"
    /\ failure_count = 0
    /\ last_failure_time = NoTime
    /\ success_count = 0
    /\ clock = 0
    /\ pc = "idle"
    /\ call_result = "none"
    /\ invoked = FALSE
    /\ failed_calls = 0
    /\ ok_calls = 0

\* Mutant: the retry strategy wraps the breaker, which sees every attempt.
FailureCountAfterRetrySeen(count) == count + 1

\* wrapped_func: the retry decorator runs inside the callable that is handed
\* to circuit_breaker.call, so an attempt that is retried leaves the count
FailureCountAfterRetry(count) == count

\* Mutant: the decorator stops only after one attempt more than max_attempts.
RetryAgainOnceMore(n) == exponential_backoff /\ n <= max_attempts

\* stop_after_attempt(max_attempts) with retry_if_exception_type(Exception):
\* the n-th attempt raised and another attempt follows
RetryAgain(n) == exponential_backoff /\ n < max_attempts

\* ErrorRecoveryManager.execute_with_recovery up to the first attempt
execute_begin ==
    /\ call_begin
    /\ attempt' = 0
    /\ count_at_call' = failure_count
    /\ recovery_result' = IF invoked' THEN recovery_result ELSE "None"
    /\ UNCHANGED <<exponential_backoff, max_attempts>>

\* an attempt of func raises: the decorator tries again, or the exception
\* reaches circuit_breaker.call and execute_with_recovery returns None
attempt_raises ==
    /\ pc = "calling"
    /\ attempt' = attempt + 1
    /\ IF RetryAgain(attempt')
       THEN /\ failure_count' = FailureCountAfterRetry(failure_count)
            /\ UNCHANGED <<state, last_failure_time, success_count,
                           failure_threshold, timeout, clock, pc, call_result,
                           invoked, failed_calls, ok_calls, recovery_result>>
       ELSE /\ call_raises
            /\ recovery_result' = "None"
    /\ UNCHANGED <<exponential_backoff, max_attempts, count_at_call>>

\* an attempt of func returns: execute_with_recovery returns its value
attempt_returns ==
    /\ pc = "calling"
    /\ attempt' = attempt + 1
    /\ call_returns
    /\ recovery_result' = "value"
    /\ UNCHANGED <<exponential_backoff, max_attempts, count_at_call>>

\* ErrorRecoveryManager.__init__
InitRecovery(backoffs, retries) ==
    /\ exponential_backoff \in backoffs
    /\ max_attempts \in {r + 1 : r \in retries}
    /\ attempt = 0
    /\ recovery_result = "none"
    /\ count_at_call = 0

\* ------------------------------------------- runners_new.py: DtuQueryJob
\* The configured DTUs (their names are distinct) and the threads that call
\* execute() on a job: the job of d1 is called by two threads, so that a call
\* can arrive while another is running; the job of d2 by one.
Dtus == {"d1", "d2"}
Threads == {<<"d1", 1>>, <<"d1", 2>>, <<"d2", 1>>}

\* plant_data of a successful query: (operating_status, total_production)
\* of the DTU's one port; NoData when no execute() holds a snapshot.
NoData == <<-1, -1>>
JobReadings == {<<1, 0>>, <<1, MaxTotal>>}

\* A new CircuitBreaker, circuit_breaker.py:42-45
NewBreaker ==
    [state |-> "closed", failure_count |-> 0, last_failure_time |-> NoTime,
     success_count |-> 0]

\* CircuitBreaker.call on breaker record b: open and the timeout not elapsed
BreakerRejects(b) ==
    /\ b.state = "open"
    /\ b.last_failure_time # NoTime
    /\ clock - b.last_failure_time < timeout

\* CircuitBreaker._on_success on breaker record b (half-open once call()
\* found the timeout elapsed)
BreakerOnSuccess(b) ==
    IF b.state \in {"open", "half_open"}
    THEN [b EXCEPT !.state = "closed", !.failure_count = 0,
                   !.success_count = 0]
    ELSE [b EXCEPT !.failure_count = IF @ - 1 > 0 THEN @ - 1 ELSE 0,
                   !.success_count = @ + 1]

\* CircuitBreaker._on_failure on breaker record b
BreakerOnFailure(b) ==
    [b EXCEPT !.failure_count = @ + 1,
              !.last_failure_time = clock,
              !.state = IF b.state \in {"open", "half_open"} THEN "open"
                        ELSE IF ThresholdReached(b.failure_count + 1)
                             THEN "open"
                        ELSE b.state]

\* Mutant: every job is handed the breaker of the first DTU.
BreakerKeyShared(d) == "d1"

\* get_circuit_breaker("dtu_" + dtu_config.name): the breaker a job uses
BreakerKey(d) == d

\* Mutant: the lock is taken without looking at it.
TryAcquireAlways(held) == TRUE

\* self._lock.acquire(blocking=False)
TryAcquire(held) == ~held

\* Mutant: the release is the last statement of the try block, which an
\* exception skips.
LockAfterReturnOnly(exit, held) == IF exit = "exception" THEN held ELSE FALSE

\* finally: self._lock.release(), whether execute() returns or an exception
\* was handled
LockAfter(exit, held) == FALSE

\* DtuQueryJob.execute, the non-blocking acquire: the body is entered, or
\* the call returns False at once
job_begin(d, c) ==
    /\ job_pc[<<d, c>>] = "idle"
    /\ SumValues(executes) < MaxExecutes
    /\ executes' = [executes EXCEPT ![d] = @ + 1]
    /\ IF TryAcquire(job_lock[d])
       THEN /\ job_lock' = [job_lock EXCEPT ![d] = TRUE]
            /\ job_pc' = [job_pc EXCEPT ![<<d, c>>] = "query"]
            /\ UNCHANGED job_result
       ELSE /\ job_result' = [job_result EXCEPT ![<<d, c>>] = "busy"]
            /\ UNCHANGED <<job_lock, job_pc>>
    /\ UNCHANGED <<breakers, job_data, job_cache, mqtt_configured, published>>

\* execute_with_recovery("dtu_" + name, _query_dtu) returns None, the breaker
\* being open or the query having raised on its last attempt: the method
\* returns False and the lock is released
job_query_fails(d, c) ==
    /\ job_pc[<<d, c>>] = "query"
    /\ breakers' =
          [breakers EXCEPT ![BreakerKey(d)] = IF BreakerRejects(@) THEN @
                                              ELSE BreakerOnFailure(@)]
    /\ job_result' = [job_result EXCEPT ![<<d, c>>] = "failed"]
    /\ job_pc' = [job_pc EXCEPT ![<<d, c>>] = "idle"]
    /\ job_lock' = [job_lock EXCEPT ![d] = LockAfter("return", @)]
    /\ UNCHANGED <<job_data, job_cache, mqtt_configured, published, executes>>

\* execute_with_recovery returns the plant data of a successful query
job_query_returns(d, c, reading) ==
    /\ job_pc[<<d, c>>] = "query"
    /\ ~BreakerRejects(breakers[BreakerKey(d)])
    /\ breakers' = [breakers EXCEPT ![BreakerKey(d)] = BreakerOnSuccess(@)]
    /\ job_data' = [job_data EXCEPT ![d] = reading]
    /\ job_pc' = [job_pc EXCEPT ![<<d, c>>] = "configs"]
    /\ UNCHANGED <<job_lock, job_result, job_cache, mqtt_configured,
                   published, executes>>

\* an exception outside the guarded helpers (execute, line 111): the method
\* records it, returns False and the lock is released
job_unexpected(d, c) ==
    /\ job_pc[<<d, c>>] = "configs"
    /\ job_data' = [job_data EXCEPT ![d] = NoData]
    /\ job_result' = [job_result EXCEPT ![<<d, c>>] = "failed"]
    /\ job_pc' = [job_pc EXCEPT ![<<d, c>>] = "idle"]
    /\ job_lock' = [job_lock EXCEPT ![d] = LockAfter("exception", @)]
    /\ UNCHANGED <<breakers, job_cache, mqtt_configured, published, executes>>

\* _publish_to_mqtt, first half: the config messages, the first time only
job_publish_configs(d, c) ==
    /\ job_pc[<<d, c>>] = "configs"
    /\ published' = IF mqtt_configured[d] THEN published
                    ELSE Append(published, <<d, "config">>)
    /\ mqtt_configured' = [mqtt_configured EXCEPT ![d] = TRUE]
    /\ job_pc' = [job_pc EXCEPT ![<<d, c>>] = "states"]
    /\ UNCHANGED <<job_lock, job_result, breakers, job_data, job_cache,
                   executes>>

\* _publish_to_mqtt, second half: get_states updates the builder's cache and
\* its messages are handed to publish(); then the method returns True and
\* the lock is released
job_publish_states(d, c) ==
    /\ job_pc[<<d, c>>] = "states"
    /\ job_cache' =
          [job_cache EXCEPT ![d] = CacheAfter(job_data[d][1], job_data[d][2], @)]
    /\ published' = Append(published, <<d, "state">>)
    /\ job_data' = [job_data EXCEPT ![d] = NoData]
    /\ job_result' = [job_result EXCEPT ![<<d, c>>] = "ok"]
    /\ job_pc' = [job_pc EXCEPT ![<<d, c>>] = "idle"]
    /\ job_lock' = [job_lock EXCEPT ![d] = LockAfter("return", @)]
    /\ UNCHANGED <<breakers, mqtt_configured, executes>>

\* DtuQueryJob.__init__ for every DTU; the breakers are created on first use
InitJobs ==
    /\ job_lock = [d \in Dtus |-> FALSE]
    /\ job_pc = [t \in Threads |-> "idle"]
    /\ job_result = [t \in Threads |-> "none"]
    /\ breakers = [d \in Dtus |-> NewBreaker]
    /\ job_data = [d \in Dtus |-> NoData]
    /\ job_cache = [d \in Dtus |-> ZERO]
    /\ mqtt_configured = [d \in Dtus |-> FALSE]
    /\ published = <<>>
    /\ executes = [d \in Dtus |-> 0]

\* ------------------------- runners_new.py: run_periodic_coordinator
\* The worker threads execute_all starts: one per job and tick; the thread
\* of a tick uses the slot of the tick's parity, so that the thread of the
\* tick before can be told from it.
Slots == {0, 1}
Workers == Dtus \X Slots
Slot(n) == n % 2
\* No cached today value was read by an update of this tick.
NotRead == -1
\* The today_production values a polled port reports.
TickReadings == {0, MaxToday}

\* A worker thread that is inside job.execute
Active(pcs, w) == pcs[w] \in {"started", "query", "update"}

\* Mutant: the threads are not joined.
JoinedNever(pcs, n) == TRUE

\* for thread in threads: thread.join() returns for every thread of tick n
Joined(pcs, n) == \A d \in Dtus : ~Active(pcs, <<d, Slot(n)>>)

\* self.dtu_jobs, in the order of the configuration
DtuJobs == <<"d1", "d2">>

\* Mutant: the fan-out does not wait for the loop over the builders.
ResetDoneEarly(jobs) == TRUE

\* _check_daily_reset has cleared every builder and returns
ResetDone(jobs) == jobs = <<>>

\* Mutant: the loop sleeps the period out (time.sleep).
WaitSleeps(stop) == FALSE

\* stop_event.wait(timeout=period) returns True as soon as the event is set
WaitWakes(stop) == stop

\* signal_handler: stop_event.set()
signal_handler ==
    /\ ~stop_event
    /\ stop_event' = TRUE
    /\ UNCHANGED <<coord_pc, ticks, remaining, to_clear, to_start, reset_fired,
                   worker_pc, worker_result, today_cache, observed, job_lock>>

\* while not stop_event.is_set(): the loop ends, or execute_all is called
loop_check ==
    /\ coord_pc = "check"
    /\ IF stop_event
       THEN /\ coord_pc' = "stopped"
            /\ UNCHANGED <<ticks, observed>>
       ELSE /\ ticks < MaxTicks
            /\ ticks' = ticks + 1
            /\ coord_pc' = "day"
            /\ observed' = [d \in Dtus |-> NotRead]
    /\ UNCHANGED <<stop_event, remaining, to_clear, to_start, reset_fired,
                   worker_pc, worker_result, today_cache, job_lock>>

\* _check_daily_reset: the reset is due (the hour is the reset hour and the
\* day is not the day of the last reset) or it is not
day_boundary_check(due) ==
    /\ coord_pc = "day"
    /\ reset_fired' = due
    /\ to_clear' = IF due THEN DtuJobs ELSE <<>>
    /\ to_start' = IF due THEN to_start ELSE DtuJobs
    /\ coord_pc' = IF due THEN "reset" ELSE "start"
    /\ UNCHANGED <<stop_event, ticks, remaining, worker_pc, worker_result,
                   today_cache, observed, job_lock>>

\* _check_daily_reset: job.mqtt_builder.clear_production_today() of one job
clear_one ==
    /\ to_clear # <<>>
    /\ today_cache' = [today_cache EXCEPT ![Head(to_clear)] = ZERO]
    /\ to_clear' = Tail(to_clear)
    /\ UNCHANGED <<stop_event, coord_pc, ticks, remaining, to_start,
                   reset_fired, worker_pc, worker_result, observed, job_lock>>

\* _check_daily_reset returns and execute_all goes on to the fan-out
reset_returns ==
    /\ coord_pc = "reset"
    /\ ResetDone(to_clear)
    /\ coord_pc' = "start"
    /\ to_start' = DtuJobs
    /\ UNCHANGED <<stop_event, ticks, remaining, to_clear, reset_fired,
                   worker_pc, worker_result, today_cache, observed, job_lock>>

\* execute_all: threading.Thread(target=job.execute).start() for the next
\* job of the list
start_worker ==
    LET w == <<Head(to_start), Slot(ticks)>>
    IN  /\ coord_pc = "start"
        /\ to_start # <<>>
        /\ ~Active(worker_pc, w)
        /\ worker_pc' = [worker_pc EXCEPT ![w] = "started"]
        /\ worker_result' = [worker_result EXCEPT ![w] = "none"]
        /\ to_start' = Tail(to_start)
        /\ coord_pc' = IF Tail(to_start) = <<>> THEN "join" ELSE "start"
        /\ UNCHANGED <<stop_event, ticks, remaining, to_clear, reset_fired,
                       today_cache, observed, job_lock>>

\* execute_all: every thread of the tick has been joined; the loop then
\* calls stop_event.wait(timeout=period)
join_all ==
    /\ coord_pc = "join"
    /\ Joined(worker_pc, ticks)
    /\ coord_pc' = "wait"
    /\ remaining' = MaxPeriod
    /\ UNCHANGED <<stop_event, ticks, to_clear, to_start, reset_fired,
                   worker_pc, worker_result, today_cache, observed, job_lock>>

\* a second of the wait passes
wait_passes ==
    /\ coord_pc = "wait"
    /\ ~WaitWakes(stop_event)
    /\ remaining > 0
    /\ remaining' = remaining - 1
    /\ UNCHANGED <<stop_event, coord_pc, ticks, to_clear, to_start, reset_fired,
                   worker_pc, worker_result, today_cache, observed, job_lock>>

\* stop_event.wait returns: True, the event being set (break), or False
\* when the period has run out
wait_returns ==
    /\ coord_pc = "wait"
    /\ IF WaitWakes(stop_event)
       THEN coord_pc' = "stopped"
       ELSE /\ remaining = 0
            /\ coord_pc' = "check"
    /\ UNCHANGED <<stop_event, ticks, remaining, to_clear, to_start, reset_fired,
                   worker_pc, worker_result, today_cache, observed, job_lock>>

\* DtuQueryJob.execute on a worker thread: the non-blocking acquire
worker_begin(w) ==
    /\ worker_pc[w] = "started"
    /\ IF TryAcquire(job_lock[w[1]])
       THEN /\ job_lock' = [job_lock EXCEPT ![w[1]] = TRUE]
            /\ worker_pc' = [worker_pc EXCEPT ![w] = "query"]
            /\ UNCHANGED worker_result
       ELSE /\ worker_result' = [worker_result EXCEPT ![w] = "busy"]
            /\ worker_pc' = [worker_pc EXCEPT ![w] = "finished"]
            /\ UNCHANGED job_lock
    /\ UNCHANGED <<stop_event, coord_pc, ticks, remaining, to_clear, to_start,
                   reset_fired, today_cache, observed>>

\* DtuQueryJob.execute on a worker thread: the guarded query returns a
\* snapshot, or None (the method returns False, the lock is released)
worker_query(w, ok) ==
    /\ worker_pc[w] = "query"
    /\ IF ok
       THEN /\ worker_pc' = [worker_pc EXCEPT ![w] = "update"]
            /\ UNCHANGED <<worker_result, job_lock>>
       ELSE /\ worker_pc' = [worker_pc EXCEPT ![w] = "finished"]
            /\ worker_result' = [worker_result EXCEPT ![w] = "failed"]
            /\ job_lock' = [job_lock EXCEPT ![w[1]] = FALSE]
    /\ UNCHANGED <<stop_event, coord_pc, ticks, remaining, to_clear, to_start,
                   reset_fired, today_cache, observed>>

\* DtuQueryJob.execute on a worker thread: get_states updates the builder's
\* cache with the reading of a running port and builds the state payloads;
\* the method returns True and the lock is released
worker_update(w, today) ==
    /\ worker_pc[w] = "update"
    /\ observed' = [observed EXCEPT ![w[1]] = today_cache[w[1]]]
    /\ today_cache' = [today_cache EXCEPT ![w[1]] = CacheAfter(1, today, @)]
    /\ worker_pc' = [worker_pc EXCEPT ![w] = "finished"]
    /\ worker_result' = [worker_result EXCEPT ![w] = "ok"]
    /\ job_lock' = [job_lock EXCEPT ![w[1]] = FALSE]
    /\ UNCHANGED <<stop_event, coord_pc, ticks, remaining, to_clear, to_start,
                   reset_fired>>

\* main: the coordinator and the stop event are built, the loop starts
InitLoop(todays) ==
    /\ stop_event = FALSE
    /\ coord_pc = "check"
    /\ ticks = 0
    /\ remaining = 0
    /\ to_clear = <<>>
    /\ to_start = <<>>
    /\ reset_fired = FALSE
    /\ worker_pc = [w \in Workers |-> "none"]
    /\ worker_result = [w \in Workers |-> "none"]
    /\ today_cache \in [Dtus -> todays]
    /\ observed = [d \in Dtus |-> NotRead]

\* ------------------------------------------------------- mqtt_client.py
\* _publisher_loop holds no message.
NoMessage == 0

\* Mutant: the queue takes every message.
QueueFullNever(q) == FALSE

\* queue.Queue(maxsize=max_queue_size).put(block=False) raises queue.Full
QueueFull(q) == Len(q) >= MaxQueue

\* Mutant: the message that could not be sent is not put back.
RequeuedNowhere(q, m) == q

\* message_queue.put(message, block=False) in _publisher_loop: the message
\* goes behind the messages that are queued
Requeued(q, m) == Append(q, m)

\* EnhancedMqttClient.publish: the message is queued, or dropped when the
\* queue is full
publish(m) ==
    /\ IF QueueFull(message_queue)
       THEN /\ messages_failed' = messages_failed + 1
            /\ publish_result' = FALSE
            /\ UNCHANGED <<message_queue, unfinished_tasks>>
       ELSE /\ message_queue' = Append(message_queue, m)
            /\ unfinished_tasks' = unfinished_tasks + 1
            /\ publish_result' = TRUE
            /\ UNCHANGED messages_failed
    /\ UNCHANGED <<connected, running, messages_sent, loop_pc, dequeued,
                   broker_log, flush_pc>>

\* EnhancedMqttClient.publish as its caller sees it: the boolean it returns
\* is counted
publish_counted(m) ==
    /\ publish(m)
    /\ accepted_count' = accepted_count + (IF publish_result' THEN 1 ELSE 0)
    /\ rejected_count' = rejected_count + (IF publish_result' THEN 0 ELSE 1)

\* No publish() call has been made
InitTally ==
    /\ accepted_count = 0
    /\ rejected_count = 0

\* _publisher_loop: message_queue.get(timeout=1) returns a message
loop_get ==
    /\ running
    /\ loop_pc = "get"
    /\ message_queue # <<>>
    /\ dequeued' = Head(message_queue)
    /\ message_queue' = Tail(message_queue)
    /\ loop_pc' = IF connected THEN "publish" ELSE "connect"
    /\ UNCHANGED <<unfinished_tasks, connected, running, messages_sent,
                   messages_failed, broker_log, next_message, publish_result,
                   flush_pc>>

\* _publisher_loop: not connected, self.connect() returns ok; when it fails
\* the message is put back (or dropped, the queue being full) and the loop
\* sleeps and starts over, without task_done
loop_connect(ok) ==
    /\ loop_pc = "connect"
    /\ IF ok
       THEN /\ connected' = TRUE
            /\ loop_pc' = "publish"
            /\ UNCHANGED <<message_queue, unfinished_tasks, messages_failed,
                           dequeued>>
       ELSE /\ IF QueueFull(message_queue)
               THEN /\ messages_failed' = messages_failed + 1
                    /\ UNCHANGED <<message_queue, unfinished_tasks>>
               ELSE /\ message_queue' = Requeued(message_queue, dequeued)
                    /\ unfinished_tasks' = unfinished_tasks + 1
                    /\ UNCHANGED messages_failed
            /\ dequeued' = NoMessage
            /\ loop_pc' = "get"
            /\ UNCHANGED connected
    /\ UNCHANGED <<running, messages_sent, broker_log, next_message,
                   publish_result, flush_pc>>

\* _publisher_loop: client.publish returns MQTT_ERR_SUCCESS (accepted) or an
\* error code or raises; then task_done
loop_publish(accepted) ==
    /\ loop_pc = "publish"
    /\ IF accepted
       THEN /\ messages_sent' = messages_sent + 1
            /\ broker_log' = Append(broker_log, dequeued)
            /\ UNCHANGED messages_failed
       ELSE /\ messages_failed' = messages_failed + 1
            /\ UNCHANGED <<messages_sent, broker_log>>
    /\ unfinished_tasks' = unfinished_tasks - 1
    /\ dequeued' = NoMessage
    /\ loop_pc' = "get"
    /\ UNCHANGED <<message_queue, connected, running, next_message,
                   publish_result, flush_pc>>

\* EnhancedMqttClient._on_disconnect
on_disconnect ==
    /\ connected
    /\ connected' = FALSE
    /\ UNCHANGED <<message_queue, unfinished_tasks, running, messages_sent,
                   messages_failed, loop_pc, dequeued, broker_log,
                   next_message, publish_result, flush_pc>>

\* main, finally: mqtt_client.flush(timeout=5) is entered
flush_begin ==
    /\ flush_pc = "idle"
    /\ flush_pc' = "joining"
    /\ UNCHANGED <<message_queue, unfinished_tasks, connected, running,
                   messages_sent, messages_failed, loop_pc, dequeued,
                   broker_log, next_message, publish_result>>

\* EnhancedMqttClient.flush: message_queue.join() returns, which it does
\* when unfinished_tasks is 0; the timeout argument is not used
flush_returns ==
    /\ flush_pc = "joining"
    /\ unfinished_tasks = 0
    /\ flush_pc' = "returned"
    /\ UNCHANGED <<message_queue, unfinished_tasks, connected, running,
                   messages_sent, messages_failed, loop_pc, dequeued,
                   broker_log, next_message, publish_result>>

\* main, finally: mqtt_client.stop_publisher() after flush returned
stop_publisher ==
    /\ flush_pc = "returned"
    /\ running' = FALSE
    /\ flush_pc' = "stopped"
    /\ UNCHANGED <<message_queue, unfinished_tasks, connected, messages_sent,
                   messages_failed, loop_pc, dequeued, broker_log,
                   next_message, publish_result>>

\* main: the client is built, connected, and its publisher started
InitClient ==
    /\ message_queue = <<>>
    /\ unfinished_tasks = 0
    /\ connected = TRUE
    /\ running = TRUE
    /\ messages_sent = 0
    /\ messages_failed = 0
    /\ loop_pc = "get"
    /\ dequeued = NoMessage
    /\ broker_log = <<>>
    /\ next_message = 1
    /\ publish_result = TRUE
    /\ flush_pc = "idle"

\* ------------------------- runners_new.py: execute() and the registry
\* The DTU whose job is polled, and the number of messages its builder
\* yields for a snapshot: get_configs and get_states.
PollDtu == "d1"
NConfigs == 3
NStates == 1
\* A labelled gauge that was never set has no sample.
NoSample == -1

\* HealthMetrics.record_query_success / record_query_error on a counter
Counted(n) == n + 1

\* Mutant: the gauge is cleared whenever the query gave no snapshot.
GaugeOfClosed(b) == 0

\* update_circuit_breaker_state(name, circuit_breaker.is_open())
GaugeOf(b) == IF b.state = "open" THEN 1 ELSE 0

\* Mutant: the state messages are published before the config messages.
FirstLoopStates(configured) == "states"

\* _publish_to_mqtt: the loop it runs first
FirstLoop(configured) == IF configured THEN "states" ELSE "configs"

\* Mutant: the snapshot is published whatever dry_run says.
PublishesAlways(dry) == TRUE

\* execute, line 101: if not self.config.dry_run
Publishes(dry) == ~dry

\* DtuQueryJob.execute is called and takes the lock
poll_begin ==
    /\ poll_pc = "idle"
    /\ polls < MaxPolls
    /\ Len(publish_calls) < MaxPublishCalls
    /\ polls' = polls + 1
    /\ poll_pc' = "query"
    /\ UNCHANGED <<dry_run, poll_left, poll_result, publish_calls,
                   query_count, error_count, dtu_status, dtu_available,
                   circuit_breaker_state, mqtt_published_count,
                   mqtt_error_count, breakers, mqtt_configured>>

\* execute_with_recovery returns None, the breaker rejecting the call or the
\* query having raised on its last attempt: the gauge is updated and the
\* method returns False
poll_query_none ==
    /\ poll_pc = "query"
    /\ breakers' =
          [breakers EXCEPT ![BreakerKey(PollDtu)] =
              IF BreakerRejects(@) THEN @ ELSE BreakerOnFailure(@)]
    /\ circuit_breaker_state' = GaugeOf(breakers'[BreakerKey(PollDtu)])
    /\ poll_result' = "failed"
    /\ poll_pc' = "idle"
    /\ UNCHANGED <<dry_run, poll_left, polls, publish_calls, query_count,
                   error_count, dtu_status, dtu_available,
                   mqtt_published_count, mqtt_error_count, mqtt_configured>>

\* execute_with_recovery returns a snapshot: record_query_success, the gauge
\* is set to 0, and _publish_to_mqtt is entered unless dry_run
poll_query_returns ==
    /\ poll_pc = "query"
    /\ ~BreakerRejects(breakers[BreakerKey(PollDtu)])
    /\ breakers' = [breakers EXCEPT ![BreakerKey(PollDtu)] = BreakerOnSuccess(@)]
    /\ query_count' = Counted(query_count)
    /\ dtu_status' = "online"
    /\ dtu_available' = 1
    /\ circuit_breaker_state' = 0
    /\ poll_pc' = IF ~Publishes(dry_run) THEN "metrics"
                  ELSE FirstLoop(mqtt_configured[PollDtu])
    /\ poll_left' = IF ~Publishes(dry_run) THEN 0
                    ELSE IF FirstLoop(mqtt_configured[PollDtu]) = "configs"
                         THEN NConfigs ELSE NStates
    /\ UNCHANGED <<dry_run, poll_result, polls, publish_calls, error_count,
                   mqtt_published_count, mqtt_error_count, mqtt_configured>>

\* _publish_to_mqtt, one turn of a loop: the message is handed to publish()
\* (retained if it is a config message) and record_mqtt_publish is called
poll_publish ==
    /\ poll_pc \in {"configs", "states"}
    /\ poll_left > 0
    /\ publish(next_message)
    /\ next_message' = next_message + 1
    /\ publish_calls' =
          Append(publish_calls,
                 <<IF poll_pc = "configs" THEN "config" ELSE "state",
                   poll_pc = "configs", publish_result'>>)
    /\ mqtt_published_count' = mqtt_published_count + 1
    /\ poll_left' = poll_left - 1
    /\ UNCHANGED <<dry_run, poll_pc, poll_result, polls, query_count,
                   error_count, dtu_status, dtu_available,
                   circuit_breaker_state, mqtt_error_count, breakers,
                   mqtt_configured>>

\* _publish_to_mqtt: the loop over get_configs has ended, mqtt_configured
\* is set and the loop over get_states begins
poll_configs_done ==
    /\ poll_pc = "configs"
    /\ poll_left = 0
    /\ mqtt_configured' = [mqtt_configured EXCEPT ![PollDtu] = TRUE]
    /\ poll_pc' = "states"
    /\ poll_left' = NStates
    /\ UNCHANGED <<dry_run, poll_result, polls, publish_calls, query_count,
                   error_count, dtu_status, dtu_available,
                   circuit_breaker_state, mqtt_published_count,
                   mqtt_error_count, breakers>>

\* _publish_to_mqtt: the loop over get_states has ended
poll_states_done ==
    /\ poll_pc = "states"
    /\ poll_left = 0
    /\ poll_pc' = "metrics"
    /\ UNCHANGED <<dry_run, poll_left, poll_result, polls, publish_calls,
                   query_count, error_count, dtu_status, dtu_available,
                   circuit_breaker_state, mqtt_published_count,
                   mqtt_error_count, breakers, mqtt_configured>>

\* execute: _update_metrics, return True
poll_returns ==
    /\ poll_pc = "metrics"
    /\ poll_result' = "ok"
    /\ poll_pc' = "idle"
    /\ UNCHANGED <<dry_run, poll_left, polls, publish_calls, query_count,
                   error_count, dtu_status, dtu_available,
                   circuit_breaker_state, mqtt_published_count,
                   mqtt_error_count, breakers, mqtt_configured>>

\* execute, line 111: an exception escapes the steps that follow the gauge
\* update; record_query_error, return False
poll_unexpected ==
    /\ poll_pc = "metrics"
    /\ error_count' = Counted(error_count)
    /\ dtu_status' = "error"
    /\ dtu_available' = 0
    /\ poll_result' = "failed"
    /\ poll_pc' = "idle"
    /\ UNCHANGED <<dry_run, poll_left, polls, publish_calls, query_count,
                   circuit_breaker_state, mqtt_published_count,
                   mqtt_error_count, breakers, mqtt_configured>>

\* DtuQueryJob.__init__ and HealthMetrics.__init__
InitPoll(dry_runs) ==
    /\ dry_run \in dry_runs
    /\ poll_pc = "idle"
    /\ poll_left = 0
    /\ poll_result = "none"
    /\ polls = 0
    /\ publish_calls = <<>>
    /\ query_count = 0
    /\ error_count = 0
    /\ dtu_status = "unknown"
    /\ dtu_available = NoSample
    /\ circuit_breaker_state = NoSample
    /\ mqtt_published_count = 0
    /\ mqtt_error_count = 0

\* --------------------------------------------- ha.py: the message streams
\* The serial under which the DTU's own messages go, and the port of a
\* message of inverter scope (port=None).
DtuSerial == "DTU"
NoPort == 0

\* A message of a stream: its kind, and the serial and port of its topic.
\* The builder is configured with one inverter entity and one port entity.
Message(kind, serial, port) == <<kind, serial, port>>

RECURSIVE ConfigsOf(_)
\* get_configs, the loop over plant_data.inverters: for every record the
\* inverter-scope configs, then the port-scope configs
ConfigsOf(inverters) ==
    IF inverters = <<>> THEN <<>>
    ELSE << Message("config", Head(inverters)[1], NoPort),
            Message("config", Head(inverters)[1], Head(inverters)[2]) >>
         \o ConfigsOf(Tail(inverters))

\* HassMqtt.get_configs
get_configs(inverters) ==
    << Message("config", DtuSerial, NoPort) >> \o ConfigsOf(inverters)

RECURSIVE StatesOf(_, _)
\* get_states, the loop over plant_data.inverters: excluded serials are
\* skipped, the inverter-scope state goes once per serial, before the state
\* of its first port
StatesOf(inverters, known_serials) ==
    IF inverters = <<>> THEN <<>>
    ELSE LET serial == Head(inverters)[1]
             port == Head(inverters)[2]
         IN  IF serial \in exclude_inverters
             THEN StatesOf(Tail(inverters), known_serials)
             ELSE (IF serial \in known_serials THEN <<>>
                   ELSE << Message("state", serial, NoPort) >>)
                  \o << Message("state", serial, port) >>
                  \o StatesOf(Tail(inverters), known_serials \cup {serial})

\* The messages of HassMqtt.get_states (the cache is SpecCache's subject)
StateMessages(inverters) ==
    << Message("state", DtuSerial, NoPort) >> \o StatesOf(inverters, {})

\* _publish_to_mqtt on the first successful poll: both streams are built
\* from the snapshot
build_streams ==
    /\ config_messages' = get_configs(snapshot)
    /\ state_messages' = StateMessages(snapshot)
    /\ UNCHANGED <<exclude_inverters, snapshot>>

\* HassMqtt.__init__ with exclude_inverters, and the snapshot of the poll
InitStreams(exclusions, snapshots) ==
    /\ exclude_inverters \in exclusions
    /\ snapshot \in snapshots
    /\ config_messages = <<>>
    /\ state_messages = <<>>

\* ------------------------------------------------------------- health.py
\* HealthMetrics.is_healthy(threshold)
is_healthy(threshold) ==
    /\ DOMAIN last_successful_query # {}
    /\ \E d \in DOMAIN last_successful_query :
          health_now - last_successful_query[d] < threshold

\* HealthMetrics.record_query_success
record_query_success(d) ==
    /\ last_successful_query' =
          [e \in DOMAIN last_successful_query \cup {d} |->
              IF e = d THEN health_now ELSE last_successful_query[e]]
    /\ health_status' = NoResponse
    /\ UNCHANGED <<health_now, dtu_offline_threshold>>

\* HealthCheckHandler._handle_health: get_health_status()['healthy'] is
\* self.is_healthy(), called without a threshold
handle_health ==
    /\ health_status' =
          IF is_healthy(DefaultOfflineThreshold) THEN 200 ELSE 503
    /\ UNCHANGED <<last_successful_query, health_now, dtu_offline_threshold>>

\* gap seconds pass on time.time()
health_time_passes(gap) ==
    /\ health_now + gap <= MaxHealthTime
    /\ health_now' = health_now + gap
    /\ health_status' = NoResponse
    /\ UNCHANGED <<last_successful_query, dtu_offline_threshold>>

\* HealthMetrics.__init__, with the configured threshold
InitHealth(thresholds) ==
    /\ last_successful_query = Empty
    /\ health_now = 0
    /\ dtu_offline_threshold \in thresholds
    /\ health_status = NoResponse

\* HealthMetrics.get_health_status, the block under the lock: the registry
\* is copied into locals and the lock is released
get_health_status_copy ==
    /\ status_pc = "idle"
    /\ requests < MaxRequests
    /\ requests' = requests + 1
    /\ copied_queries' = last_successful_query
    /\ status_pc' = "copied"
    /\ UNCHANGED <<response_healthy, response_dtus>>

\* HealthMetrics.get_health_status, after the lock: the 'dtus' section is
\* built from the copies, and 'healthy' is self.is_healthy(), which takes
\* the lock again and reads the registry
get_health_status_returns ==
    /\ status_pc = "copied"
    /\ response_dtus' = copied_queries
    /\ response_healthy' = is_healthy(DefaultOfflineThreshold)
    /\ status_pc' = "idle"
    /\ UNCHANGED <<copied_queries, requests>>

\* No /health request has been served
InitStatus ==
    /\ status_pc = "idle"
    /\ copied_queries = Empty
    /\ response_healthy = FALSE
    /\ response_dtus = Empty
    /\ requests = 0

\* The state of every added component outside the set S that is not run.
InitIdle(S) ==
    /\ IF "retry" \in S THEN TRUE ELSE InitRecovery({TRUE}, {DefaultRetries})
    /\ IF "job" \in S THEN TRUE ELSE InitJobs
    /\ IF "queue" \in S THEN TRUE ELSE InitClient
    /\ IF "health" \in S
       THEN TRUE ELSE InitHealth({DefaultOfflineThreshold})
    /\ IF "stream" \in S THEN TRUE ELSE InitStreams({{}}, {<<>>})
    /\ IF "store" \in S THEN TRUE ELSE InitStore
    /\ IF "tick" \in S THEN TRUE ELSE InitLoop({0})
    /\ IF "poll" \in S THEN TRUE ELSE InitPoll({FALSE})
    /\ IF "share" \in S THEN TRUE ELSE InitShared
    /\ IF "fault" \in S THEN TRUE ELSE InitFaulty({TRUE})
    /\ IF "builder" \in S THEN TRUE ELSE InitBuilders
    /\ IF "snap" \in S THEN TRUE ELSE InitStatus
    /\ IF "tally" \in S THEN TRUE ELSE InitTally

\* --------------------------------------------------------------- SpecCache
\* The snapshots a poll can return: any subset of the ports, any readings.
Snapshots ==
    {s \in PartialMaps(Keys, Readings) :
        CoarsePort \in DOMAIN s => s[CoarsePort] \in CoarseReadings}

\* The production_cache tables a store can hold at start-up.
Tables ==
    {t \in PartialMaps(Keys, Rows) :
        CoarsePort \in DOMAIN t => t[CoarsePort] \in CoarseRows}

InitCache ==
    /\ InitBuilder(Tables)
    /\ InitCoordinator({0})
    /\ InitBreaker({DefaultThreshold}, {DefaultTimeout})
    /\ InitIdle({})

GetStates ==
    /\ \E inverters \in Snapshots, reported \in DtuReported :
          get_states(inverters, reported)
    /\ UNCHANGED <<resetVars, breakerVars, extVars>>

ClearToday ==
    /\ clear_production_today
    /\ UNCHANGED <<resetVars, breakerVars, extVars>>

NextCache == GetStates \/ ClearToday

SpecCache == InitCache /\ [][NextCache]_vars

\* --------------------------------------------------------------- SpecReset
\* The stores the coordinator starts from: none, or the day-reset scenario's
\* row with today and total at their maximum.
ResetTables ==
    {Empty,
     [k \in {FinePort} |->
        [today_production |-> MaxToday, total_production |-> MaxTotal]]}

\* Hours between two ticks: the same hour, the next hour, the next day, and
\* four weeks (query_period has no upper limit).
TickGaps == {0, 1, 24, 24 * 28}

InitReset ==
    /\ InitBuilder(ResetTables)
    /\ InitCoordinator(0..23)
    /\ InitBreaker({DefaultThreshold}, {DefaultTimeout})
    /\ InitIdle({})

Tick ==
    /\ \E gap \in TickGaps : check_daily_reset(gap)
    /\ UNCHANGED <<breakerVars, extVars>>

NextReset == Tick

SpecReset == InitReset /\ [][NextReset]_vars

\* ------------------------------------------------------------ SpecRestart
\* The ticks of SpecReset, with restarts of the process between them; the
\* first start is in the reset hour or in the hour before it.
InitRestarting ==
    /\ InitBuilder(ResetTables)
    /\ InitCoordinator({reset_hour - 1, reset_hour})
    /\ InitBreaker({DefaultThreshold}, {DefaultTimeout})
    /\ InitIdle({})

CoordinatorRestart ==
    coordinator_restart /\ UNCHANGED <<breakerVars, extVars>>

\* a poll between two ticks' resets: port A/1 is running and reports the
\* largest readings
RestartPoll ==
    /\ get_states([k \in {FinePort} |->
                      [operating_status |-> 1, today_production |-> MaxToday,
                       total_production |-> MaxTotal]],
                  <<MaxToday, MaxTotal>>)
    /\ UNCHANGED <<resetVars, breakerVars, extVars>>

NextRestart == Tick \/ CoordinatorRestart \/ RestartPoll

SpecRestart == InitRestarting /\ [][NextRestart]_vars

\* ------------------------------------------------------------- SpecBreaker
InitCircuit ==
    /\ InitBuilder({Empty})
    /\ enabled
    /\ InitCoordinator({0})
    /\ InitBreaker(1..MaxThreshold, 1..MaxTimeout)
    /\ InitIdle({})

CallBegin == call_begin /\ UNCHANGED <<cacheVars, resetVars, extVars>>

CallReturns == call_returns /\ UNCHANGED <<cacheVars, resetVars, extVars>>

CallRaises == call_raises /\ UNCHANGED <<cacheVars, resetVars, extVars>>

Reset == reset /\ UNCHANGED <<cacheVars, resetVars, extVars>>

ClockTicks == clock_ticks /\ UNCHANGED <<cacheVars, resetVars, extVars>>

NextBreaker == CallBegin \/ CallReturns \/ CallRaises \/ Reset \/ ClockTicks

SpecBreaker == InitCircuit /\ [][NextBreaker]_vars

\* ------------------------------------------------------------ SpecRecovery
InitRetrying ==
    /\ InitBuilder({Empty})
    /\ enabled
    /\ InitCoordinator({0})
    /\ InitBreaker(1..MaxThreshold, {MaxTimeout})
    /\ InitRecovery(BOOLEAN, 0..MaxRetries)
    /\ InitIdle({"retry"})

ExecuteBegin ==
    execute_begin /\ UNCHANGED <<cacheVars, resetVars>> /\ Frame({"retry"})

AttemptRaises ==
    attempt_raises /\ UNCHANGED <<cacheVars, resetVars>> /\ Frame({"retry"})

AttemptReturns ==
    attempt_returns /\ UNCHANGED <<cacheVars, resetVars>> /\ Frame({"retry"})

\* a second passes: between two calls, or during a backoff sleep
RetryClockTicks ==
    clock_ticks /\ UNCHANGED <<cacheVars, resetVars, retryVars>>
                /\ Frame({"retry"})

NextRecovery ==
    ExecuteBegin \/ AttemptRaises \/ AttemptReturns \/ RetryClockTicks

SpecRecovery == InitRetrying /\ [][NextRecovery]_vars

\* ---------------------------------------------------------------- SpecJobs
\* The breaker variables a job's breaker record does not use.
breakerRest ==
    <<state, failure_count, last_failure_time, success_count, pc, call_result,
      invoked, failed_calls, ok_calls>>

InitPolling ==
    /\ InitBuilder({Empty})
    /\ enabled
    /\ InitCoordinator({0})
    /\ InitBreaker({1}, {MaxTimeout})
    /\ InitJobs
    /\ InitIdle({"job"})

JobFrame ==
    /\ UNCHANGED <<cacheVars, resetVars, breakerVars>>
    /\ Frame({"job"})

JobBegin == (\E t \in Threads : job_begin(t[1], t[2])) /\ JobFrame

JobQueryFails == (\E t \in Threads : job_query_fails(t[1], t[2])) /\ JobFrame

JobQueryReturns ==
    /\ \E t \in Threads, reading \in JobReadings :
          job_query_returns(t[1], t[2], reading)
    /\ JobFrame

JobUnexpected == (\E t \in Threads : job_unexpected(t[1], t[2])) /\ JobFrame

JobPublishConfigs ==
    (\E t \in Threads : job_publish_configs(t[1], t[2])) /\ JobFrame

JobPublishStates ==
    (\E t \in Threads : job_publish_states(t[1], t[2])) /\ JobFrame

\* timeout seconds pass on time.time(): a call made at the second of the
\* breaker's last failure is rejected, the next one probes
JobClockTicks ==
    /\ clock + timeout <= MaxClock
    /\ clock' = clock + timeout
    /\ UNCHANGED <<cacheVars, resetVars, breakerRest, failure_threshold,
                   timeout, extVars>>

\* Some step inside the body of an execute() of the job of DTU d.
JobBodyStep(d) ==
    /\ \E t \in Threads :
          /\ t[1] = d
          /\ \/ job_query_fails(t[1], t[2])
             \/ \E reading \in JobReadings :
                   job_query_returns(t[1], t[2], reading)
             \/ job_unexpected(t[1], t[2])
             \/ job_publish_configs(t[1], t[2])
             \/ job_publish_states(t[1], t[2])
    /\ JobFrame

NextJobs ==
    \/ JobBegin \/ JobQueryFails \/ JobQueryReturns \/ JobUnexpected
    \/ JobPublishConfigs \/ JobPublishStates \/ JobClockTicks

SpecJobs == InitPolling /\ [][NextJobs]_vars

\* --------------------------------------------------------------- SpecQueue
InitQueue ==
    /\ InitBuilder({Empty})
    /\ enabled
    /\ InitCoordinator({0})
    /\ InitBreaker({DefaultThreshold}, {DefaultTimeout})
    /\ InitClient
    /\ InitIdle({"queue"})

QueueFrame ==
    /\ UNCHANGED <<cacheVars, resetVars, breakerVars>>
    /\ Frame({"queue"})

\* The one producer hands its next message to publish(); the jobs have
\* ended when main reaches flush.
Publish ==
    /\ next_message <= MaxMessages
    /\ flush_pc = "idle"
    /\ publish(next_message)
    /\ next_message' = next_message + 1
    /\ QueueFrame

LoopGet == loop_get /\ QueueFrame

LoopConnect ==
    /\ \E ok \in BOOLEAN :
          /\ ok \/ unfinished_tasks < MaxUnfinished
          /\ loop_connect(ok)
    /\ QueueFrame

LoopPublish == (\E accepted \in BOOLEAN : loop_publish(accepted)) /\ QueueFrame

OnDisconnect == on_disconnect /\ QueueFrame

FlushBegin == flush_begin /\ QueueFrame

FlushReturns == flush_returns /\ QueueFrame

StopPublisher == stop_publisher /\ QueueFrame

NextQueue ==
    \/ Publish \/ LoopGet \/ LoopConnect \/ LoopPublish \/ OnDisconnect
    \/ FlushBegin \/ FlushReturns \/ StopPublisher

SpecQueue == InitQueue /\ [][NextQueue]_vars

\* The publisher thread, main and the network callbacks keep being scheduled.
QueueFairness ==
    /\ WF_vars(Publish) /\ WF_vars(LoopGet) /\ WF_vars(LoopConnect)
    /\ WF_vars(LoopPublish) /\ WF_vars(FlushBegin) /\ WF_vars(FlushReturns)
    /\ WF_vars(StopPublisher)

SpecQueueFair == SpecQueue /\ QueueFairness

\* -------------------------------------------------------------- SpecHealth
\* dtu_offline_threshold values of the configuration: the smallest the
\* alert settings accept, the default, and a larger one.
OfflineThresholds == {60, DefaultOfflineThreshold, 600}

\* Seconds between two events of the health registry.
HealthGaps == {60, 240}

InitHealthy ==
    /\ InitBuilder({Empty})
    /\ enabled
    /\ InitCoordinator({0})
    /\ InitBreaker({DefaultThreshold}, {DefaultTimeout})
    /\ InitHealth(OfflineThresholds)
    /\ InitIdle({"health"})

HealthFrame ==
    /\ UNCHANGED <<cacheVars, resetVars, breakerVars>>
    /\ Frame({"health"})

RecordQuerySuccess ==
    (\E d \in Dtus : record_query_success(d)) /\ HealthFrame

HandleHealth == handle_health /\ HealthFrame

HealthTimePasses ==
    (\E gap \in HealthGaps : health_time_passes(gap)) /\ HealthFrame

NextHealth == RecordQuerySuccess \/ HandleHealth \/ HealthTimePasses

SpecHealth == InitHealthy /\ [][NextHealth]_vars

\* ------------------------------------------------------------- SpecStreams
\* The serials and ports of the modelled plant, and the snapshots a poll
\* returns: up to MaxInverters port records.
Serials == {"A", "X", "B"}
Ports == {1, 2}
StreamSnapshots == UNION {[1..n -> Serials \X Ports] : n \in 1..MaxInverters}

InitStreaming ==
    /\ InitBuilder({Empty})
    /\ enabled
    /\ InitCoordinator({0})
    /\ InitBreaker({DefaultThreshold}, {DefaultTimeout})
    /\ InitStreams({{}, {"X"}}, StreamSnapshots)
    /\ InitIdle({"stream"})

BuildStreams ==
    /\ build_streams
    /\ UNCHANGED <<cacheVars, resetVars, breakerVars>>
    /\ Frame({"stream"})

NextStreams == BuildStreams

SpecStreams == InitStreaming /\ [][NextStreams]_vars

\* --------------------------------------------------------------- SpecStore
\* How _initialize_database can end.
OpenOutcomes == {"ok", "connect_error", "schema_error"}

InitStoring ==
    /\ InitBuilder({Empty})
    /\ InitCoordinator({0})
    /\ InitBreaker({DefaultThreshold}, {DefaultTimeout})
    /\ InitStore
    /\ InitIdle({"store"})

StoreFrame ==
    /\ UNCHANGED <<prod_today_cache, prod_total_cache, polled, plant_data,
                   port_state, dtu_state, last_op>>
    /\ UNCHANGED <<resetVars, breakerVars>>
    /\ Frame({"store"})

SaveProductionCache ==
    /\ SumValues(save_count) < MaxSaves
    /\ \E k \in Keys, today \in 0..MaxToday, total \in 0..MaxTotal :
          save_production_cache(k, today, total)
    /\ StoreFrame

LoadProductionCache == load_from_store /\ StoreFrame

CloseStore == close /\ StoreFrame

OpenStore ==
    /\ \E on \in BOOLEAN, outcome \in OpenOutcomes : open_store(on, outcome)
    /\ StoreFrame

NextStore ==
    \/ SaveProductionCache
    \/ LoadProductionCache
    \/ CloseStore
    \/ OpenStore

SpecStore == InitStoring /\ [][NextStore]_vars

\* --------------------------------------------------------------- SpecTicks
\* The builders start with a today value loaded from the store.
InitTicking ==
    /\ InitBuilder({Empty})
    /\ enabled
    /\ InitCoordinator({0})
    /\ InitBreaker({DefaultThreshold}, {DefaultTimeout})
    /\ InitLoop({MaxToday})
    /\ InitIdle({"tick"})

TickFrame ==
    /\ UNCHANGED <<cacheVars, resetVars, breakerVars>>
    /\ UNCHANGED <<job_pc, job_result, breakers, job_data, job_cache,
                   mqtt_configured, published, executes>>
    /\ Frame({"job", "tick"})

SignalHandler == signal_handler /\ TickFrame

LoopCheck == loop_check /\ TickFrame

DayBoundaryCheck == (\E due \in BOOLEAN : day_boundary_check(due)) /\ TickFrame

ClearOne == clear_one /\ TickFrame

ResetReturns == reset_returns /\ TickFrame

StartWorker == start_worker /\ TickFrame

JoinAll == join_all /\ TickFrame

WaitPasses == wait_passes /\ TickFrame

WaitReturns == wait_returns /\ TickFrame

WorkerBegin == (\E w \in Workers : worker_begin(w)) /\ TickFrame

WorkerQuery ==
    (\E w \in Workers, ok \in BOOLEAN : worker_query(w, ok)) /\ TickFrame

WorkerUpdate ==
    /\ \E w \in Workers, today \in TickReadings : worker_update(w, today)
    /\ TickFrame

NextTicks ==
    \/ SignalHandler \/ LoopCheck \/ DayBoundaryCheck \/ ClearOne
    \/ ResetReturns \/ StartWorker \/ JoinAll \/ WaitPasses \/ WaitReturns
    \/ WorkerBegin \/ WorkerQuery \/ WorkerUpdate

SpecTicks == InitTicking /\ [][NextTicks]_vars

\* The coordinator's thread and the worker threads are scheduled, and every
\* execute() in flight comes to an end; the signal may never come.
TickFairness ==
    /\ WF_vars(LoopCheck) /\ WF_vars(DayBoundaryCheck) /\ WF_vars(ClearOne)
    /\ WF_vars(ResetReturns) /\ WF_vars(StartWorker) /\ WF_vars(JoinAll)
    /\ WF_vars(WaitPasses) /\ WF_vars(WaitReturns)
    /\ WF_vars(WorkerBegin) /\ WF_vars(WorkerQuery) /\ WF_vars(WorkerUpdate)

SpecTicksFair == SpecTicks /\ TickFairness

\* ---------------------------------------------------------------- SpecPoll
\* One job is polled, with or without dry_run; its breaker opens at the
\* second failure. The publisher thread drains the queue the job fills; the
\* broker takes every message handed to it and every reconnect succeeds.
InitPolled ==
    /\ InitBuilder({Empty})
    /\ enabled
    /\ InitCoordinator({0})
    /\ InitBreaker({2}, {MaxTimeout})
    /\ InitPoll(BOOLEAN)
    /\ InitIdle({"poll"})

PollRest ==
    /\ UNCHANGED <<cacheVars, resetVars, breakerVars>>
    /\ UNCHANGED <<job_lock, job_pc, job_result, job_data, job_cache,
                   published, executes>>
    /\ Frame({"job", "queue", "poll"})

PollBegin == poll_begin /\ UNCHANGED queueVars /\ PollRest

PollQueryNone == poll_query_none /\ UNCHANGED queueVars /\ PollRest

PollQueryReturns == poll_query_returns /\ UNCHANGED queueVars /\ PollRest

PollPublish == poll_publish /\ PollRest

PollConfigsDone == poll_configs_done /\ UNCHANGED queueVars /\ PollRest

PollStatesDone == poll_states_done /\ UNCHANGED queueVars /\ PollRest

PollReturns == poll_returns /\ UNCHANGED queueVars /\ PollRest

PollUnexpected == poll_unexpected /\ UNCHANGED queueVars /\ PollRest

PublisherConnects == loop_connect(TRUE) /\ QueueFrame

PublisherSends == loop_publish(TRUE) /\ QueueFrame

NextPoll ==
    \/ PollBegin \/ PollQueryNone \/ PollQueryReturns \/ PollPublish
    \/ PollConfigsDone \/ PollStatesDone \/ PollReturns \/ PollUnexpected
    \/ JobClockTicks
    \/ LoopGet \/ PublisherConnects \/ PublisherSends \/ OnDisconnect

SpecPoll == InitPolled /\ [][NextPoll]_vars

\* -------------------------------------------------------------- SpecShared
InitSharing ==
    /\ InitBuilder({Empty})
    /\ enabled
    /\ InitCoordinator({0})
    /\ InitBreaker({DefaultThreshold}, {DefaultTimeout})
    /\ InitShared
    /\ InitIdle({"share"})

SharedFrame ==
    /\ UNCHANGED <<prod_today_cache, prod_total_cache, enabled, polled,
                   plant_data, port_state, dtu_state, last_op>>
    /\ UNCHANGED <<resetVars, breakerVars>>
    /\ Frame({"share"})

SaveEnters ==
    /\ \E t \in SaveThreads, today \in {0, MaxToday} : save_enters(t, today)
    /\ SharedFrame

SaveExecutes == (\E t \in SaveThreads : save_executes(t)) /\ SharedFrame

SaveCommits == (\E t \in SaveThreads : save_commits(t)) /\ SharedFrame

StatsEnters == stats_enters /\ SharedFrame

StatsSelects == stats_selects /\ SharedFrame

NextShared ==
    \/ SaveEnters \/ SaveExecutes \/ SaveCommits
    \/ StatsEnters \/ StatsSelects

SpecShared == InitSharing /\ [][NextShared]_vars

\* -------------------------------------------------------------- SpecFaulty
\* The builder of one port (A/1) on a store that is disabled, or whose calls
\* fail, at any operation.
InitFaultyStore ==
    /\ InitBuilder({Empty})
    /\ enabled
    /\ InitCoordinator({0})
    /\ InitBreaker({DefaultThreshold}, {DefaultTimeout})
    /\ InitFaulty(BOOLEAN)
    /\ InitIdle({"fault"})

FaultFrame ==
    /\ UNCHANGED <<cacheVars, resetVars, breakerVars>>
    /\ Frame({"fault"})

FaultyGetStates ==
    /\ \E reading \in Readings, outcome \in StoreOutcomes :
          faulty_get_states([k \in {FinePort} |-> reading], outcome)
    /\ FaultFrame

FaultyClear == (\E outcome \in StoreOutcomes : faulty_clear(outcome)) /\ FaultFrame

FaultyRestart ==
    /\ \E on \in BOOLEAN, opened \in BOOLEAN, outcome \in StoreOutcomes :
          faulty_restart(on, opened, outcome)
    /\ FaultFrame

NextFaulty == FaultyGetStates \/ FaultyClear \/ FaultyRestart

SpecFaulty == InitFaultyStore /\ [][NextFaulty]_vars

\* ------------------------------------------------------------ SpecBuilders
\* Two DTUs with one port each, their builders on one store, polled in any
\* order, with restarts of the process.
InitSharedBuilders ==
    /\ InitBuilder({Empty})
    /\ enabled
    /\ InitCoordinator({0})
    /\ InitBreaker({DefaultThreshold}, {DefaultTimeout})
    /\ InitBuilders
    /\ InitIdle({"builder"})

BuilderFrame ==
    /\ UNCHANGED <<cacheVars, resetVars, breakerVars>>
    /\ Frame({"builder"})

BuilderGetStates ==
    /\ \E d \in SaveThreads, reading \in Readings :
          builder_get_states(d, reading)
    /\ BuilderFrame

BuildersRestart == builders_restart /\ BuilderFrame

NextBuilders == BuilderGetStates \/ BuildersRestart

SpecBuilders == InitSharedBuilders /\ [][NextBuilders]_vars

\* ------------------------------------------------------------ SpecSnapshot
\* The handler thread of /health beside the job threads, which record their
\* successful queries at any time.
InitSnapshot ==
    /\ InitBuilder({Empty})
    /\ enabled
    /\ InitCoordinator({0})
    /\ InitBreaker({DefaultThreshold}, {DefaultTimeout})
    /\ InitHealth({DefaultOfflineThreshold})
    /\ InitStatus
    /\ InitIdle({"health", "snap"})

SnapshotFrame ==
    /\ UNCHANGED <<cacheVars, resetVars, breakerVars>>
    /\ Frame({"health", "snap"})

StatusCopy == get_health_status_copy /\ UNCHANGED healthVars /\ SnapshotFrame

StatusReturns ==
    get_health_status_returns /\ UNCHANGED healthVars /\ SnapshotFrame

WriterRecordsSuccess ==
    /\ \E d \in Dtus : record_query_success(d)
    /\ UNCHANGED snapVars
    /\ SnapshotFrame

SnapshotTimePasses ==
    /\ health_time_passes(DefaultOfflineThreshold)
    /\ UNCHANGED snapVars
    /\ SnapshotFrame

NextSnapshot ==
    StatusCopy \/ StatusReturns \/ WriterRecordsSuccess \/ SnapshotTimePasses

SpecSnapshot == InitSnapshot /\ [][NextSnapshot]_vars

\* --------------------------------------------------------------- SpecTally
\* The producer and the publisher thread of SpecQueue, with the results of
\* publish() counted; main does not reach flush.
InitTallied ==
    /\ InitBuilder({Empty})
    /\ enabled
    /\ InitCoordinator({0})
    /\ InitBreaker({DefaultThreshold}, {DefaultTimeout})
    /\ InitClient
    /\ InitTally
    /\ InitIdle({"queue", "tally"})

PublishCounted ==
    /\ next_message <= MaxMessages
    /\ publish_counted(next_message)
    /\ next_message' = next_message + 1
    /\ UNCHANGED <<cacheVars, resetVars, breakerVars>>
    /\ Frame({"queue", "tally"})

NextTally ==
    PublishCounted \/ LoopGet \/ LoopConnect \/ LoopPublish \/ OnDisconnect

SpecTally == InitTallied /\ [][NextTally]_vars

\* ================================================================ claims
\* The cached value of a key, an absent key counting as 0.
TodayOf(cache, k) == Get(cache, k, ZERO)

\* C1: for every (serial, port), the total_production carried in successive
\* emitted port state messages never decreases, and the today_production
\* carried in them never decreases between two clear_today calls (here: in
\* two consecutive get_states calls that both emit the port), whatever the
\* operating_status of the readings.
C1_EmittedCountersNeverDecrease ==
    [][last_op' = "get_states" =>
        \A k \in DOMAIN polled' :
            /\ k \in DOMAIN port_state =>
                  port_state'[k].total_production
                      >= port_state[k].total_production
            /\ (last_op = "get_states" /\ k \in DOMAIN polled) =>
                  port_state'[k].today_production
                      >= port_state[k].today_production]_vars

\* C2: the cached total of every key never decreases, under any sequence of
\* get_states and clear_production_today calls, and no key leaves the cache.
C2_CachedTotalNeverDecreases ==
    [][\A k \in DOMAIN prod_total_cache :
          /\ k \in DOMAIN prod_total_cache'
          /\ prod_total_cache'[k] >= prod_total_cache[k]]_vars

\* C2 witness: a running port reported a total below the cached one.
C2_Witness ==
    /\ last_op = "get_states"
    /\ FinePort \in DOMAIN polled
    /\ polled[FinePort].operating_status > 0
    /\ polled[FinePort].total_production < prod_total_cache[FinePort]

\* C3: whenever a port state message is emitted, its total_production and
\* today_production equal the cache values of that key at that moment.
C3_EmittedEqualsCache ==
    last_op = "get_states" =>
        \A k \in DOMAIN polled :
            /\ port_state[k].total_production = prod_total_cache[k]
            /\ port_state[k].today_production = prod_today_cache[k]

\* C4: between two clear_today calls the cached today of every key never
\* decreases, and right after clear_today the today of every key is 0 (an
\* absent key counting as 0).
C4_TodayMonotoneBetweenResets ==
    [][/\ last_op' = "get_states" =>
            \A k \in Keys :
                TodayOf(prod_today_cache', k) >= TodayOf(prod_today_cache, k)
       /\ last_op' = "clear" =>
            \A k \in Keys : TodayOf(prod_today_cache', k) = 0]_vars

\* C4 witness: clear_today ran after a snapshot had raised a today counter.
C4_Witness ==
    /\ last_op = "clear"
    /\ FinePort \in DOMAIN polled
    /\ polled[FinePort].operating_status > 0
    /\ plant_data.inverters[FinePort].today_production = MaxToday
    /\ TodayOf(prod_today_cache, FinePort) = 0

\* The DTU state payload carries entity e with value v.
DtuCarries(e, v) == e \in DOMAIN dtu_state /\ dtu_state[e] = v

C7_IdleReadingLeavesCacheUntouched ==
    [][last_op' = "get_states" =>
        \A k \in DOMAIN polled' :
            polled'[k].operating_status = 0 =>
                /\ (k \in DOMAIN prod_today_cache')
                      = (k \in DOMAIN prod_today_cache)
                /\ (k \in DOMAIN prod_total_cache')
                      = (k \in DOMAIN prod_total_cache)
                /\ TodayOf(prod_today_cache', k) = TodayOf(prod_today_cache, k)
                /\ TodayOf(prod_total_cache', k)
                      = TodayOf(prod_total_cache, k)]_vars

\* C7 as amended: a reading with operating_status 0 changes the today and
\* total of no existing entry and removes no entry; the one change it can
\* make is to add its own key, when absent, with value 0.
C7_IdleReadingKeepsValues ==
    [][last_op' = "get_states" =>
        /\ DOMAIN prod_today_cache \subseteq DOMAIN prod_today_cache'
        /\ DOMAIN prod_total_cache \subseteq DOMAIN prod_total_cache'
        /\ \A k \in DOMAIN polled' :
              polled'[k].operating_status = 0 =>
                  /\ prod_today_cache'[k] = TodayOf(prod_today_cache, k)
                  /\ prod_total_cache'[k] = TodayOf(prod_total_cache, k)
        /\ (\A k \in DOMAIN polled' : polled'[k].operating_status = 0) =>
              /\ \A j \in DOMAIN prod_today_cache :
                    prod_today_cache'[j] = prod_today_cache[j]
              /\ \A j \in DOMAIN prod_total_cache :
                    prod_total_cache'[j] = prod_total_cache[j]]_vars

\* C7 witness: an idle port reported more than its cached today of 1.
C7_Witness ==
    /\ last_op = "get_states"
    /\ FinePort \in DOMAIN polled
    /\ polled[FinePort].operating_status = 0
    /\ polled[FinePort].today_production = MaxToday
    /\ prod_today_cache[FinePort] = 1

C5_ResetOncePerCalendarDay ==
    [][clear_invoked' =
          (now_hour' = reset_hour /\ last_clear_day # now_day')]_vars

\* C9: from a fresh closed breaker with threshold T, after k < T failing
\* calls and no success the breaker is closed with failure_count = k; the
\* failing call that brings failure_count to T opens it and records the
\* time of the failure; closed never turns open while failure_count < T.
C9_OpensAtThreshold ==
    [][/\ (pc' = "idle" /\ ok_calls' = 0
                        /\ failed_calls' < failure_threshold') =>
              (state' = "closed" /\ failure_count' = failed_calls')
       /\ (call_raises /\ ok_calls = 0
                       /\ failed_calls' = failure_threshold) =>
              /\ state' = "open"
              /\ failure_count' = failure_threshold
              /\ last_failure_time' = clock
       /\ (state = "closed" /\ state' = "open") =>
              failure_count' >= failure_threshold]_vars

\* C9 witness: the largest threshold was reached by failures alone.
C9_Witness ==
    /\ state = "open"
    /\ pc = "idle"
    /\ ok_calls = 0
    /\ failure_threshold = MaxThreshold
    /\ failed_calls = failure_threshold
    /\ failure_count = failure_threshold

\* C10: while the breaker is open and less than timeout seconds have passed
\* since last_failure_time, a call is rejected without invoking the function
\* and without changing state or counters; the first call made once timeout
\* seconds have passed turns the breaker half-open and invokes the function.
C10_OpenRejectsUntilTimeout ==
    [][(call_begin /\ state = "open") =>
          IF clock - last_failure_time < timeout
          THEN /\ call_result' = "rejected"
               /\ ~invoked'
               /\ pc' = "idle"
               /\ UNCHANGED <<state, failure_count, success_count,
                              last_failure_time>>
          ELSE /\ state' = "half_open"
               /\ invoked'
               /\ pc' = "calling"]_vars

\* C10 witness: a call was rejected, and the call made exactly timeout
\* seconds after the failure is in the wrapped function, half-open.
C10_Witness ==
    /\ state = "half_open"
    /\ pc = "calling"
    /\ call_result = "rejected"
    /\ timeout = MaxTimeout
    /\ clock - last_failure_time = timeout

\* C11: the probe call made in half-open decides the next state: when it
\* returns the breaker is closed with failure_count 0; when it raises the
\* breaker is open again with last_failure_time set to the time of that
\* failure, so a call made less than timeout seconds after the failed probe
\* is rejected without invoking the function.
C11_ProbeDecidesNextState ==
    [][/\ (call_returns /\ state = "half_open") =>
              (state' = "closed" /\ failure_count' = 0)
       /\ (call_raises /\ state = "half_open") =>
              (state' = "open" /\ last_failure_time' = clock)
       /\ (call_begin /\ state = "open"
                      /\ failure_count > failure_threshold
                      /\ call_result = "raised"
                      /\ clock - last_failure_time < timeout) =>
              (~invoked' /\ state' = "open")]_vars

\* C11 witness: a probe failed at a later second than the failure that had
\* opened the breaker, and a call made before the timeout elapsed again was
\* rejected.
C11_Witness ==
    /\ state = "open"
    /\ pc = "idle"
    /\ failure_count = failure_threshold + 1
    /\ call_result = "rejected"
    /\ timeout = MaxTimeout
    /\ last_failure_time >= timeout
    /\ clock - last_failure_time = timeout - 1

\* C12: one execute_with_recovery call whose function keeps raising records
\* exactly one breaker failure (failure_count is one more than when the call
\* began) whatever the number of attempts the retry strategy made; an attempt
\* that is retried records nothing; a call that returns on a later attempt
\* records no failure.
C12_OneFailurePerRetryBatch ==
    [][/\ (pc = "calling" /\ pc' = "idle" /\ call_result' = "raised") =>
              /\ failure_count' = count_at_call + 1
              /\ failed_calls' = failed_calls + 1
              /\ recovery_result' = "None"
       /\ (pc = "calling" /\ pc' = "calling") =>
              UNCHANGED <<state, failure_count, last_failure_time,
                          failed_calls>>
       /\ (pc = "calling" /\ pc' = "idle" /\ call_result' = "returned") =>
              /\ failure_count' <= count_at_call
              /\ UNCHANGED <<failed_calls, last_failure_time>>
              /\ state' = "closed"]_vars

\* C12 witness: a call ended in the exception of its last attempt after the
\* largest number of attempts, with one failure recorded.
C12_Witness ==
    /\ pc = "idle"
    /\ call_result = "raised"
    /\ exponential_backoff
    /\ max_attempts = MaxRetries + 1
    /\ attempt = max_attempts
    /\ failure_count = count_at_call + 1
    /\ count_at_call = 1

\* C12 second case reached: a call returned on its last attempt after every
\* earlier attempt had raised.
C12_WitnessLateSuccess ==
    /\ pc = "idle"
    /\ call_result = "returned"
    /\ attempt = MaxRetries + 1
    /\ failed_calls = 0

\* The threads of DTU d that are inside the body of execute().
InBody(pcs, d) == {t \in Threads : t[1] = d /\ pcs[t] # "idle"}

\* C13: at most one execute() body per job runs at any time, and an
\* execute() called while an earlier one of the same job is running returns
\* busy (False) at once: no query, and the breaker, the cache, the publish
\* calls, the configured flag, the lock and the running call are untouched.
C13_ExecuteNonReentrant ==
    [][/\ \A d \in Dtus :
              /\ Cardinality(InBody(job_pc', d)) <= 1
              /\ job_lock'[d] = (InBody(job_pc', d) # {})
       /\ \A d \in Dtus :
              (InBody(job_pc, d) # {} /\ executes'[d] # executes[d]) =>
                  /\ \E t \in Threads \ InBody(job_pc, d) :
                        /\ t[1] = d
                        /\ job_result'[t] = "busy"
                  /\ UNCHANGED <<job_lock, job_pc, breakers, job_data,
                                 job_cache, mqtt_configured, published>>]_vars

\* C13 witness: the second thread's call returned busy while the first
\* thread's call holds a snapshot it has not published yet.
C13_Witness ==
    /\ job_pc[<<"d1", 1>>] = "states"
    /\ job_result[<<"d1", 2>>] = "busy"
    /\ job_lock["d1"]
    /\ executes["d1"] = 2

\* A step changes something that belongs to the job of DTU d.
JobTouched(d) ==
    \/ job_lock'[d] # job_lock[d]
    \/ breakers'[d] # breakers[d]
    \/ job_data'[d] # job_data[d]
    \/ job_cache'[d] # job_cache[d]
    \/ mqtt_configured'[d] # mqtt_configured[d]
    \/ executes'[d] # executes[d]
    \/ \E t \in Threads :
          /\ t[1] = d
          /\ (job_pc'[t] # job_pc[t] \/ job_result'[t] # job_result[t])

\* C20: a step of one DTU's job (a query failure, a rejection by its open
\* breaker and an unexpected exception among them) changes nothing that
\* belongs to another DTU's job, its breaker record included, and removes no
\* publish call; and the job of a DTU that is inside execute() can always
\* take its next step, whatever the state of the other DTU's job.
C20_JobsIndependent ==
    [][/\ \A d \in Dtus, e \in Dtus :
              (d # e /\ JobTouched(d)) => ~JobTouched(e)
       /\ \A i \in 1..Len(published) :
              i <= Len(published') /\ published'[i] = published[i]
       /\ \A d \in Dtus :
              InBody(job_pc, d) # {} => ENABLED JobBodyStep(d)]_vars

\* C20 witness: in the same round the query of d1 failed and opened its
\* breaker, while the job of d2 ran to completion, raised its own cache and
\* handed its state message to publish(), its breaker record untouched.
C20_Witness ==
    /\ executes = [d \in Dtus |-> 1]
    /\ job_result[<<"d1", 1>>] = "failed"
    /\ breakers["d1"].state = "open"
    /\ job_result[<<"d2", 1>>] = "ok"
    /\ job_cache["d2"] = MaxTotal
    /\ job_cache["d1"] = ZERO
    /\ published = << <<"d2", "config">>, <<"d2", "state">> >>
    /\ breakers["d2"].failure_count = 0
    /\ breakers["d2"].state = "closed"

\* C14: with one producer, the messages reach the broker in the order they
\* were handed to publish() (messages are numbered in that order), under any
\* interleaving of disconnects, failed connects and reconnects.
C14_BrokerOrderIsEnqueueOrder ==
    \A i \in 1..Len(broker_log), j \in 1..Len(broker_log) :
        i < j => broker_log[i] < broker_log[j]

\* C15: the queue never holds more than its capacity; publish() on a full
\* queue returns False, adds 1 to messages_failed and leaves the queue as it
\* is; publish() on a queue that is not full returns True with the message
\* added behind the queued ones and no failure counted.
C15_QueueBoundedDropNewest ==
    [][/\ Len(message_queue') <= MaxQueue
       /\ next_message' # next_message =>
              IF Len(message_queue) >= MaxQueue
              THEN /\ ~publish_result'
                   /\ messages_failed' = messages_failed + 1
                   /\ message_queue' = message_queue
              ELSE /\ publish_result'
                   /\ messages_failed' = messages_failed
                   /\ message_queue' = Append(message_queue, next_message)]_vars

\* C15 witness: the last message was dropped by publish() on a full queue
\* whose two messages are still queued in their order.
C15_Witness ==
    /\ ~publish_result
    /\ messages_failed = 1
    /\ next_message = MaxMessages + 1
    /\ Len(message_queue) = MaxQueue
    /\ \A i \in 1..Len(message_queue) : message_queue[i] = i
    /\ loop_pc = "get"

\* C16: a flush that has been entered returns (the queue has drained or the
\* timeout has elapsed), so that shutdown goes on to stop the publisher.
C16_FlushReturns == (flush_pc = "joining") ~> (flush_pc # "joining")

\* C17: a /health response is 200 exactly when some DTU has a successful
\* query less than the configured dtu_offline_threshold seconds before the
\* request, and 503 otherwise.
C17_HealthFollowsConfiguredThreshold ==
    health_status # NoResponse =>
        health_status =
            IF \E d \in DOMAIN last_successful_query :
                  health_now - last_successful_query[d] < dtu_offline_threshold
            THEN 200 ELSE 503

\* The serials that have a message in the sequence of messages.
SerialsIn(messages) == {messages[i][2] : i \in 1..Len(messages)}

\* The non-excluded records of the snapshot.
Included == {i \in 1..Len(snapshot) : snapshot[i][1] \notin exclude_inverters}

\* C18: for every snapshot, neither the config stream nor the state stream
\* holds a message of a serial listed in exclude_inverters, while every
\* record that is not excluded gets its state message of inverter scope
\* (one per serial) and of port scope.
C18_ExcludedSkippedInBothStreams ==
    /\ SerialsIn(config_messages) \cap exclude_inverters = {}
    /\ SerialsIn(state_messages) \cap exclude_inverters = {}
    /\ state_messages # <<>> =>
          /\ \A i \in Included :
                \E j \in 1..Len(state_messages) :
                    state_messages[j] =
                        Message("state", snapshot[i][1], snapshot[i][2])
          /\ \A i \in Included :
                Cardinality({j \in 1..Len(state_messages) :
                    state_messages[j] =
                        Message("state", snapshot[i][1], NoPort)}) = 1
          /\ Len(state_messages) =
                1 + Cardinality(Included)
                  + Cardinality({snapshot[i][1] : i \in Included})

\* The state stream alone does skip the excluded serials (the part of C18
\* that get_states implements).
C18_StateStreamSkipsExcluded ==
    /\ SerialsIn(state_messages) \cap exclude_inverters = {}
    /\ state_messages # <<>> =>
          Len(state_messages) =
              1 + Cardinality(Included)
                + Cardinality({snapshot[i][1] : i \in Included})

C21_StopEndsLoop ==
    /\ [][stop_event => ticks' = ticks]_vars
    /\ [][stop_event /\ coord_pc = "wait" => remaining' = remaining]_vars
    /\ [](coord_pc = "stopped" => \A w \in Workers : ~Active(worker_pc, w))
    /\ (stop_event ~> coord_pc = "stopped")

\* The loop was woken in the middle of the wait after a tick and stopped.
C21_Witness ==
    /\ coord_pc = "stopped" /\ stop_event
    /\ ticks >= 1
    /\ 0 < remaining /\ remaining < MaxPeriod

\* C22: no worker thread is inside execute() while the loop is between two
\* fan-outs (condition, day-boundary check, wait); during a fan-out only the
\* threads of that tick are; so no job has two execute() in progress, and no
\* execute() started by the loop returns busy.
C22_TicksDoNotOverlap ==
    /\ coord_pc \in {"check", "day", "reset", "wait", "stopped"}
          => \A w \in Workers : ~Active(worker_pc, w)
    /\ \A w \in Workers : Active(worker_pc, w) => w[2] = Slot(ticks)
    /\ \A d \in Dtus : ~(Active(worker_pc, <<d, 0>>) /\ Active(worker_pc, <<d, 1>>))
    /\ \A w \in Workers : worker_result[w] # "busy"

\* The second tick's thread of a job queries while the thread of the first
\* tick has returned.
C22_Witness ==
    /\ ticks = 2
    /\ worker_pc[<<"d1", Slot(2)>>] = "query"
    /\ worker_pc[<<"d1", Slot(1)>>] = "finished"
    /\ worker_result[<<"d1", Slot(1)>>] = "ok"

\* C29: while _check_daily_reset runs, and while a builder is still to be
\* cleared, no worker thread is inside execute(); and in a tick whose reset
\* fired every cache update reads a today value that was cleared first.
C29_ResetBeforeFanOut ==
    /\ (coord_pc \in {"day", "reset"} \/ to_clear # <<>>)
          => \A w \in Workers : ~Active(worker_pc, w)
    /\ \A d \in Dtus :
          (reset_fired /\ observed[d] # NotRead) => observed[d] = ZERO

\* The reset fired on the first tick, the builders holding a today value,
\* and both jobs then updated their cache.
C29_Witness ==
    /\ ticks = 1 /\ reset_fired
    /\ \A d \in Dtus : observed[d] = ZERO /\ today_cache[d] = MaxToday

\* C27: when client.publish reports an error for the dequeued message, the
\* publisher loop marks the client disconnected, counts one failure and puts
\* the message back in the queue.
C27_PublishErrorRequeues ==
    [][(loop_pc = "publish" /\ loop_pc' = "get" /\ broker_log' = broker_log)
          => /\ ~connected'
             /\ messages_failed' = messages_failed + 1
             /\ \E i \in 1..Len(message_queue') : message_queue'[i] = dequeued]_vars

\* C23: when the guarded query gives no snapshot, execute() records a query
\* error for the DTU (error_count + 1, status 'error', DTU unavailable),
\* updates the breaker gauge and returns False.
C23_NoSnapshotRecordsError ==
    [][(poll_pc = "query" /\ poll_pc' = "idle")
          => /\ error_count' = error_count + 1
             /\ dtu_status' = "error"
             /\ dtu_available' = 0
             /\ circuit_breaker_state' \in {0, 1}
             /\ poll_result' = "failed"]_vars

\* C24: after every completed execute() the gauge circuit_breaker_state of
\* the DTU is 1 if the DTU's breaker is open and 0 if it is not.
C24_GaugeFollowsBreaker ==
    (poll_pc = "idle" /\ polls > 0)
        => /\ circuit_breaker_state \in {0, 1}
           /\ circuit_breaker_state = 1 <=> breakers[PollDtu].state = "open"

\* The breaker had opened and a successful probe closed it: the gauge is
\* back at 0.
C24_Witness ==
    /\ poll_pc = "idle" /\ poll_result = "ok"
    /\ breakers[PollDtu].state = "closed"
    /\ breakers[PollDtu].last_failure_time # NoTime
    /\ breakers[PollDtu].success_count = 0
    /\ circuit_breaker_state = 0

\* The breaker is open and the gauge is 1 after a tick it rejected.
C24_WitnessOpen ==
    /\ poll_pc = "idle" /\ poll_result = "failed"
    /\ breakers[PollDtu].state = "open"
    /\ breakers[PollDtu].failure_count = 2
    /\ polls >= 3
    /\ circuit_breaker_state = 1

\* The positions of the job's publish calls of one kind.
CallsOf(kind) ==
    {i \in 1..Len(publish_calls) : publish_calls[i][1] = kind}

C26_ConfiguredOnlyIfAccepted ==
    mqtt_configured[PollDtu]
        => /\ Cardinality(CallsOf("config")) = NConfigs
           /\ \A i \in CallsOf("config") : publish_calls[i][3]

\* C28: when publish() rejects a message of the job because the queue is
\* full, the registry's MQTT error count goes up by one and the message is
\* not counted as published.
C28_QueueFullCountsError ==
    [][(Len(publish_calls') > Len(publish_calls)
        /\ ~publish_calls'[Len(publish_calls')][3])
          => /\ mqtt_error_count' = mqtt_error_count + 1
             /\ mqtt_published_count' = mqtt_published_count]_vars

\* C30: at most one store operation runs on the shared connection at any
\* time.
C30_StoreOperationsSerialised ==
    Cardinality({t \in StoreThreads : op_pc[t] # "idle"}) <= 1

\* C31: one execute_with_recovery call makes at most max_attempts =
\* comm_retries + 1 attempts of the query (one when exponential_backoff is
\* off), every attempt is made while the call is in progress, the attempt
\* that returns is the last one and its value is the result, and a call
\* that ends with a raising attempt, or that the breaker rejects, returns
\* None: no other outcome reaches the job.
C31_AttemptsBoundedAndReturns ==
    /\ [](/\ attempt <= max_attempts
          /\ ~exponential_backoff => attempt <= 1
          /\ recovery_result \in {"none", "value", "None"})
    /\ [][/\ attempt' > attempt => pc = "calling" /\ attempt' = attempt + 1
          /\ (pc = "calling" /\ call_result' = "returned" /\ pc' = "idle") =>
                 recovery_result' = "value"
          /\ (pc = "calling" /\ pc' = "calling") =>
                 /\ attempt' < max_attempts
                 /\ UNCHANGED recovery_result
          /\ (pc = "calling" /\ pc' = "idle" /\ call_result' = "raised") =>
                 /\ recovery_result' = "None"
                 /\ attempt' = IF exponential_backoff THEN max_attempts ELSE 1
          /\ (pc = "idle" /\ pc' = "idle" /\ call_result' = "rejected") =>
                 recovery_result' = "None"]_vars

\* C31 witness: with comm_retries = MaxRetries a call returned the snapshot
\* on its second attempt, one attempt before the last one allowed.
C31_Witness ==
    /\ pc = "idle"
    /\ exponential_backoff
    /\ max_attempts = MaxRetries + 1
    /\ attempt = 2
    /\ call_result = "returned"
    /\ recovery_result = "value"

\* C32: every exit of the body of execute() (the query failed, an exception
\* was handled, the states were published) releases the job's lock and
\* reports ok or failed; and an execute() called on a job with no call in
\* progress, whatever the earlier calls ended with, acquires the lock and
\* enters the body: it is not reported busy.
C32_LockReleasedOnEveryExit ==
    [][/\ \A t \in Threads :
              (job_pc[t] # "idle" /\ job_pc'[t] = "idle") =>
                  /\ ~job_lock'[t[1]]
                  /\ job_result'[t] \in {"ok", "failed"}
       /\ \A d \in Dtus :
              (InBody(job_pc, d) = {} /\ executes'[d] # executes[d]) =>
                  /\ job_lock'[d]
                  /\ \E t \in Threads : /\ t[1] = d
                                        /\ job_pc'[t] = "query"
                  /\ UNCHANGED job_result]_vars

\* C32 witness: the first call on the job of d1 got its snapshot and ended
\* in the handled exception before anything was published, and the next
\* call on the same job, by the other thread, is inside the body.
C32_Witness ==
    /\ job_result[<<"d1", 1>>] = "failed"
    /\ breakers["d1"].success_count = 1
    /\ ~mqtt_configured["d1"]
    /\ job_pc[<<"d1", 1>>] = "idle"
    /\ job_pc[<<"d1", 2>>] = "query"
    /\ job_lock["d1"]
    /\ executes["d1"] = 2

\* The last store method of the builder did nothing: the store is disabled
\* or unusable, or one of its sqlite3 calls failed.
StoreCallDegraded == ~store_usable \/ store_outcome # "ok"

C34_ClosedSuccessDecrementsToFloor ==
    /\ [](failure_count >= 0)
    /\ [][(pc = "calling" /\ state = "closed" /\ pc' = "idle"
            /\ call_result' = "returned") =>
              /\ state' = "closed"
              /\ failure_count' =
                    IF failure_count = 0 THEN 0 ELSE failure_count - 1
              /\ success_count' = success_count + 1]_vars

\* C34 witness: a closed breaker that had counted two failures has seen one
\* call return and counts one failure, and is still closed.
C34_Witness ==
    /\ pc = "idle"
    /\ call_result = "returned"
    /\ state = "closed"
    /\ failed_calls = 2
    /\ ok_calls = 1
    /\ failure_count = 1

\* C34, the floor is reached: two calls returned after one failure.
C34_WitnessFloor ==
    /\ pc = "idle"
    /\ call_result = "returned"
    /\ state = "closed"
    /\ failed_calls = 1
    /\ ok_calls = 2
    /\ failure_count = 0

\* C35: reset() leaves the breaker closed with failure_count 0 and no
\* last-failure time, whatever its state and counts were; and a call made
\* when no call has ended since the reset is passed to the function.
C35_ResetClosesFromAnyState ==
    [][/\ reset =>
              /\ state' = "closed"
              /\ failure_count' = 0
              /\ last_failure_time' = NoTime
              /\ success_count' = 0
       /\ (call_begin /\ failed_calls = 0 /\ ok_calls = 0) =>
              /\ invoked'
              /\ pc' = "calling"
              /\ state' = "closed"]_vars

\* C35 witness: an open breaker that had rejected a call was reset, and the
\* next call is in the wrapped function.
C35_Witness ==
    /\ call_result = "rejected"
    /\ failed_calls = 0
    /\ ok_calls = 0
    /\ state = "closed"
    /\ failure_count = 0
    /\ last_failure_time = NoTime
    /\ pc = "calling"
    /\ invoked

\* C36: the persisted total_production of a row never decreases, whichever
\* DTU's builder saves and whatever the builders loaded at the last start.
C36_PersistedTotalNeverDecreases ==
    [][\A k \in DOMAIN shared_table :
          /\ k \in DOMAIN shared_table'
          /\ shared_table'[k].total_production >=
                 shared_table[k].total_production]_vars

\* C37: a tick on a calendar day on which clear_today has been invoked
\* already, whether or not the process was restarted in between, does not
\* invoke it again: the persisted today counters are left as they are.
C37_NoSecondClearSameDay ==
    [][(clear_invoked' /\ last_op' = "clear" /\ last_clear_day = now_day') =>
          \A k \in DOMAIN production_cache :
              production_cache'[k].today_production =
                  production_cache[k].today_production]_vars

\* C38: a status that reports healthy names, in its per-DTU section, at
\* least one DTU with a last successful query.
C38_HealthySnapshotNamesADtu ==
    response_healthy => DOMAIN response_dtus # {}

\* The accepted messages that met no fate yet: queued, or held by the
\* publisher thread.
Pending == Len(message_queue) + (IF dequeued = NoMessage THEN 0 ELSE 1)

\* The messages in the queue, in the publisher thread's hands and in the
\* broker's log, in one sequence.
Whereabouts ==
    message_queue \o broker_log
                  \o (IF dequeued = NoMessage THEN <<>> ELSE <<dequeued>>)

\* C39 as stated: between two iterations of the publisher loop the accepted
\* messages are the sent, the failed and the pending ones, the failed ones
\* being counted by messages_failed.
C39_AcceptedIsSentFailedPending ==
    loop_pc = "get" =>
        accepted_count = messages_sent + messages_failed + Pending

\* C39, amended: messages_failed counts the messages publish() rejected as
\* well; less those, every accepted message is sent, failed or pending, in
\* every state; no message is in two places or in the broker's log twice,
\* and the broker's log holds exactly the messages counted as sent.
C39_AcceptedHaveOneFate ==
    /\ accepted_count =
           messages_sent + (messages_failed - rejected_count) + Pending
    /\ messages_failed >= rejected_count
    /\ Len(broker_log) = messages_sent
    /\ \A i, j \in 1..Len(Whereabouts) :
           Whereabouts[i] = Whereabouts[j] => i = j
    /\ accepted_count + rejected_count = next_message - 1

\* C39 witness: the last message handed over was rejected by the full
\* queue; of the accepted ones, the broker client refused one and took the
\* other, and nothing is pending.
C39_Witness ==
    /\ loop_pc = "get"
    /\ next_message = MaxMessages + 1
    /\ rejected_count = 1
    /\ accepted_count = MaxMessages - 1
    /\ messages_sent = 1
    /\ messages_failed = 2
    /\ Pending = 0


\* C40: in dry_run mode no poll of the job hands a message to publish():
\* the publisher's queue stays empty, nothing is in flight, and its sent and
\* failed counters, the broker log and the published-message counter stay
\* where construction left them, in every state and after every step, while
\* the query counters, the gauges and the breaker are free to change.
C40_DryRunPublishesNothing ==
    /\ [](dry_run =>
            /\ publish_calls = <<>>
            /\ message_queue = <<>>
            /\ unfinished_tasks = 0
            /\ loop_pc = "get"
            /\ messages_sent = 0
            /\ messages_failed = 0
            /\ broker_log = <<>>
            /\ next_message = 1
            /\ mqtt_published_count = 0
            /\ mqtt_error_count = 0
            /\ poll_pc \notin {"configs", "states"})
    /\ [][dry_run =>
            UNCHANGED <<message_queue, unfinished_tasks, messages_sent,
                        messages_failed, loop_pc, dequeued, broker_log,
                        next_message, publish_result>>]_vars

\* A dry run in which a query succeeded and the breaker then opened: the
\* success was counted, the DTU is online and the gauge reads 1.
C40_Witness ==
    /\ dry_run
    /\ poll_pc = "idle"
    /\ polls >= 3
    /\ query_count >= 1
    /\ dtu_status = "online"
    /\ breakers[BreakerKey(PollDtu)].state = "open"
    /\ circuit_breaker_state = 1

====
